---- MODULE Spec2Model ----
(***************************************************************************)
(* Model of the piece-list chess board of unchess_lib                      *)
(* (src/unchess_lib/src/board/piece_list.rs): move application, pseudo-    *)
(* legal and legal move generation, the attacked-square oracle, state      *)
(* classification and PGN move disambiguation.                             *)
(*                                                                         *)
(* A Rust Result is a record [err, val]: err = "Ok" carries the value in   *)
(* val; err = "PieceNotFound", "InvalidBoard", "IllegalMove",              *)
(* "ImpossibleMove", "AmbiguousMove" is the Err variant; err = "Panic" is  *)
(* a failed assert!/unwrap that unwinds the call.                          *)
(***************************************************************************)
EXTENDS Integers, Sequences, FiniteSets, TLC

\* ---------------------------------------------------------------- bounds
\* moves applied since construction
MaxPlies == 2

\* moves applied before PGN moves are resolved
MaxPgnPlies == 1

\* words in a PGN text
MaxWords == 3

\* calls of move_piece on one board
MaxCalls == 8

\* ----------------------------------------------------- program constants
\* piece_plegal_moves: `self.halfmove_clock >= 50`
HalfmoveLimit == 50

\* piece_plegal_moves: `.count() >= 2`
RepetitionLimit == 2

\* castle_rook: KINGSIDE_CASTLE / QUEENSIDE_CASTLE
KINGSIDE_CASTLE == 2

QUEENSIDE_CASTLE == -2

\* move_piece: PAWN_DOUBLE_PUSH
PAWN_DOUBLE_PUSH == 2

\* ------------------------------------------------------- Result plumbing
\* Option<PieceKind> and Option<MoveAction> are the kind's name or None;
\* Option<SimpleSquare> and Option<u8> are <<>> (None) or <<x>> (Some(x))
None == "None"

Ok(v) == [err |-> "Ok", val |-> v]

Err(e) == [err |-> e, val |-> <<>>]

IsOk(r) == r.err = "Ok"

\* `let x = e; body` is written Let(e, LAMBDA x : body): e is evaluated
\* once, before body, and x names its value
Let(e, body(_)) == body(e)

Let2(e1, e2, body(_, _)) == body(e1, e2)

\* The least index of a non-empty set of indices
First(S) == CHOOSE i \in S : \A j \in S : i <= j

\* The indices of the failed results of a sequence of results
Failed(rs) == {i \in DOMAIN rs : ~IsOk(rs[i])}

\* `moves.append(&mut more?)` when the moves pushed so far are known
Pushed(moves, more) == IF IsOk(more) THEN Ok(moves \o more.val) ELSE more

\* The Vecs rs[lo].val .. rs[hi].val appended in order
RECURSIVE ConcatFrom(_, _, _)
ConcatFrom(rs, lo, hi) ==
    IF lo > hi THEN <<>>
    ELSE IF lo = hi THEN rs[lo].val
    ELSE ConcatFrom(rs, lo, (lo + hi) \div 2) \o ConcatFrom(rs, (lo + hi) \div 2 + 1, hi)

\* Concatenate a sequence of Result<Vec<_>>: the first failure wins (the
\* `?` operator inside a for loop), otherwise the Vecs are appended in order
ConcatResults(rs) ==
    IF Failed(rs) # {} THEN Err(rs[First(Failed(rs))].err)
    ELSE Ok(ConcatFrom(rs, 1, Len(rs)))

\* ------------------------------------------------- squares, offsets, moves
Sq(f, r) == [file |-> f, rank |-> r]

SquareOffset(f, r) == [file |-> f, rank |-> r]

Not(colour) == IF colour = "White" THEN "Black" ELSE "White"

\* impl Mul<PieceColour> for SquareOffset
MulColour(off, colour) ==
    IF colour = "White" THEN off ELSE SquareOffset(off.file, -off.rank)

\* i8 division truncates towards zero
TruncDiv(x, d) == IF x >= 0 THEN x \div d ELSE -((-x) \div d)

\* The division that leaves the offset whole. C14_EnPassantTarget tells it
\* apart from DivOffset.
DivOffset_whole(off, d) == off

DivOffset(off, d) == SquareOffset(TruncDiv(off.file, d), TruncDiv(off.rank, d))

would_overflow(off, square) ==
    \/ -off.file > square.file
    \/ off.file > 7 - square.file
    \/ -off.rank > square.rank
    \/ off.rank > 7 - square.rank

\* impl Add<SquareOffset> for SimpleSquare: the asserts of add and of
\* SimpleSquare::new fail exactly when the sum leaves 0..7
AddPanics(square, off) ==
    ~(square.file + off.file \in 0..7 /\ square.rank + off.rank \in 0..7)

Add(square, off) == Sq(square.file + off.file, square.rank + off.rank)

\* impl Sub for SimpleSquare
SubSq(a, b) == SquareOffset(a.file - b.file, a.rank - b.rank)

Abs(x) == IF x < 0 THEN -x ELSE x

SimpleMove(src, dest, promote_to) ==
    [src |-> src, dest |-> dest, promote_to |-> promote_to]

ChessPiece(square, kind, colour) ==
    [square |-> square, kind |-> kind, colour |-> colour]

is_starting_rank(square, colour) ==
    \/ colour = "Black" /\ square.rank = 6
    \/ colour = "White" /\ square.rank = 1

\* The expansion without the rook. C6_PromotionExpansion tells it apart from
\* promotions_on_square.
promotions_without_rook(src, dest) ==
    IF dest.rank = 0 \/ dest.rank = 7
    THEN << SimpleMove(src, dest, "Knight"), SimpleMove(src, dest, "Queen"),
            SimpleMove(src, dest, "Bishop") >>
    ELSE << SimpleMove(src, dest, None) >>

promotions_on_square(src, dest) ==
    IF dest.rank = 0 \/ dest.rank = 7
    THEN << SimpleMove(src, dest, "Knight"), SimpleMove(src, dest, "Queen"),
            SimpleMove(src, dest, "Bishop"), SimpleMove(src, dest, "Rook") >>
    ELSE << SimpleMove(src, dest, None) >>

QUEEN_DIRECTIONS ==
    << SquareOffset(-1, -1), SquareOffset(-1, 1), SquareOffset(1, -1),
       SquareOffset(1, 1), SquareOffset(0, -1), SquareOffset(0, 1),
       SquareOffset(-1, 0), SquareOffset(1, 0) >>

KNIGHT_PATTERN ==
    << SquareOffset(-2, -1), SquareOffset(-2, 1), SquareOffset(-1, -2),
       SquareOffset(-1, 2), SquareOffset(1, -2), SquareOffset(1, 2),
       SquareOffset(2, -1), SquareOffset(2, 1) >>

KING_PATTERN == QUEEN_DIRECTIONS

KINGSIDE == 0

QUEENSIDE == 1

\* castling_rights is indexed 0..3 in the source; TLA+ sequences start at 1
castling_right_offset(colour) == IF colour = "Black" THEN 2 ELSE 0

Right(b, colour, side) == b.castling_rights[castling_right_offset(colour) + side + 1]

\* ------------------------------------------------------ board inspection
Range(s) == {s[i] : i \in DOMAIN s}

Occupied(b, square) == \E i \in DOMAIN b.pieces : b.pieces[i].square = square

PiecesAt(b, square) == {i \in DOMAIN b.pieces : b.pieces[i].square = square}

\* Iterator::position: index of the first piece on `square`, 0 when absent
Position(pieces, square) ==
    Let({i \in DOMAIN pieces : pieces[i].square = square},
        LAMBDA idx : IF idx = {} THEN 0 ELSE First(idx))

\* The removal that leaves the Vec as it is. C13_KingsAndSquares tells it
\* apart from Remove.
Remove_nothing(s, i) == s

\* Vec::remove
Remove(s, i) == SubSeq(s, 1, i - 1) \o SubSeq(s, i + 1, Len(s))

get_piece(b, square) ==
    Let(PiecesAt(b, square), LAMBDA idx :
        IF idx = {} THEN Err("PieceNotFound")
        ELSE IF Cardinality(idx) = 1 THEN Ok(b.pieces[First(idx)])
        ELSE Err("InvalidBoard"))

square_empty(b, square) ==
    Let(get_piece(b, square), LAMBDA p :
        IF IsOk(p) THEN Ok(FALSE)
        ELSE IF p.err = "PieceNotFound" THEN Ok(TRUE)
        ELSE Err(p.err))

square_takeable(b, colour, target_square) ==
    Let(get_piece(b, target_square), LAMBDA p :
        IF IsOk(p) THEN Ok(p.val.colour # colour)
        ELSE IF p.err = "PieceNotFound" THEN Ok(TRUE)
        ELSE Err(p.err))

\* --------------------------------------------- pseudo-legal move generators
\* curr_square after k iterations of the while loop of traversal_moves
Stepped(square, direction, k) ==
    Sq(square.file + k * direction.file, square.rank + k * direction.rank)

\* The number of iterations the loop condition allows when no square breaks
\* the loop: iteration k runs when no curr_square before it would overflow
Reach(square, direction) ==
    Cardinality({k \in 1..7 :
        \A j \in 0..(k - 1) : ~would_overflow(direction, Stepped(square, direction, j))})

\* The iteration that ends the loop on no square: the ray runs through
\* pieces. C25_PatternAndRayMoves tells it apart from Visit.
Visit_through(b, colour, square, curr_square) ==
    Let(square_takeable(b, colour, curr_square), LAMBDA takeable :
        IF ~IsOk(takeable) THEN [err |-> takeable.err, val |-> <<>>, ends |-> TRUE]
        ELSE [err |-> "Ok",
              val |-> IF takeable.val
                      THEN <<SimpleMove(square, curr_square, None)>> ELSE <<>>,
              ends |-> FALSE])

\* One iteration of the while loop on curr_square: the move it pushes, and
\* whether the loop ends with it (a `?` that returns, or the break)
Visit(b, colour, square, curr_square) ==
    Let2(square_takeable(b, colour, curr_square), square_empty(b, curr_square),
         LAMBDA takeable, empty :
            IF ~IsOk(takeable) THEN [err |-> takeable.err, val |-> <<>>, ends |-> TRUE]
            ELSE IF ~IsOk(empty) THEN [err |-> empty.err, val |-> <<>>, ends |-> TRUE]
            ELSE [err |-> "Ok",
                  val |-> IF takeable.val
                          THEN <<SimpleMove(square, curr_square, None)>> ELSE <<>>,
                  ends |-> ~empty.val])

\* The while loop of traversal_moves for one direction: the iterations up to
\* the first that ends the loop
Ray(b, colour, square, direction) ==
    Let([k \in 1..Reach(square, direction) |->
            Visit(b, colour, square, Stepped(square, direction, k))],
        LAMBDA visits :
           Let({k \in DOMAIN visits : visits[k].ends}, LAMBDA ends :
               ConcatResults(SubSeq(visits, 1,
                   IF ends = {} THEN Len(visits) ELSE First(ends)))))

traversal_moves(b, square, colour, directions) ==
    ConcatResults([i \in 1..Len(directions) |-> Ray(b, colour, square, directions[i])])

OffsetStep(b, square, colour, offset) ==
    IF would_overflow(offset, square) THEN Ok(<<>>)
    ELSE Let(square_takeable(b, colour, Add(square, offset)), LAMBDA takeable :
             IF ~IsOk(takeable) THEN Err(takeable.err)
             ELSE IF takeable.val
             THEN Ok(<<SimpleMove(square, Add(square, offset), None)>>)
             ELSE Ok(<<>>))

offset_moves(b, square, colour, pattern) ==
    ConcatResults([i \in 1..Len(pattern) |-> OffsetStep(b, square, colour, pattern[i])])

\* The capture step that never takes en passant. C24_PawnMoves tells it
\* apart from PawnTake.
PawnTake_occupied_only(b, square, colour, take) ==
    Let(get_piece(b, take), LAMBDA p :
        IF IsOk(p)
        THEN (IF p.val.colour # colour
              THEN Ok(promotions_on_square(square, take)) ELSE Ok(<<>>))
        ELSE IF p.err = "PieceNotFound" THEN Ok(<<>>)
        ELSE Err(p.err))

\* One iteration of `for take in takes` in pawn_moves
PawnTake(b, square, colour, take) ==
    Let(get_piece(b, take), LAMBDA p :
        IF IsOk(p)
        THEN (IF p.val.colour # colour
              THEN Ok(promotions_on_square(square, take)) ELSE Ok(<<>>))
        ELSE IF p.err = "PieceNotFound"
        THEN (IF b.en_passant = <<take>>
              THEN Ok(<<SimpleMove(square, take, None)>>) ELSE Ok(<<>>))
        ELSE Err(p.err))

\* The pushes of pawn_moves, entered with the square ahead known to be on
\* the board
PawnPushes(b, square, colour, single_push) ==
    Let(square_empty(b, single_push), LAMBDA empty :
        IF ~IsOk(empty) THEN Err(empty.err)
        ELSE IF ~empty.val THEN Ok(<<>>)
        ELSE IF ~is_starting_rank(square, colour)
        THEN Ok(promotions_on_square(square, single_push))
        ELSE IF AddPanics(square, MulColour(SquareOffset(0, 2), colour))
        THEN Err("Panic")
        ELSE Let(square_empty(b, Add(square, MulColour(SquareOffset(0, 2), colour))),
                 LAMBDA empty2 :
                    IF ~IsOk(empty2) THEN Err(empty2.err)
                    ELSE IF empty2.val
                    THEN Ok(promotions_on_square(square, single_push)
                            \o <<SimpleMove(square,
                                    Add(square, MulColour(SquareOffset(0, 2), colour)),
                                    None)>>)
                    ELSE Ok(promotions_on_square(square, single_push))))

\* The diagonal squares of pawn_moves, in the order they are tried
PawnTakes(square, colour) ==
    (IF square.file > 0
     THEN <<Add(square, MulColour(SquareOffset(-1, 1), colour))>> ELSE <<>>)
    \o (IF square.file < 7
        THEN <<Add(square, MulColour(SquareOffset(1, 1), colour))>> ELSE <<>>)

pawn_moves(b, square, colour) ==
    IF AddPanics(square, MulColour(SquareOffset(0, 1), colour)) THEN Err("Panic")
    ELSE Let2(PawnPushes(b, square, colour,
                         Add(square, MulColour(SquareOffset(0, 1), colour))),
              PawnTakes(square, colour),
              LAMBDA pushes, takes :
                 IF ~IsOk(pushes) THEN Err(pushes.err)
                 ELSE Pushed(pushes.val,
                             ConcatResults([i \in 1..Len(takes) |->
                                 PawnTake(b, square, colour, takes[i])])))

\* Check if `squares` (destinations of `moves`) hold a piece of `colour`
\* whose kind is in `piece_kinds`
\* The match of squares_contain on get_piece(square): TRUE returns Ok(true),
\* FALSE goes on to the next square, an error is returned
Seen(b, colour, square, piece_kinds) ==
    Let(get_piece(b, square), LAMBDA p :
        IF IsOk(p) /\ p.val.colour = colour /\ p.val.kind \in piece_kinds
        THEN Ok(TRUE)
        ELSE IF IsOk(p) \/ p.err = "PieceNotFound" THEN Ok(FALSE)
        ELSE Err(p.err))

\* The loop returns at the first square that does not go on to the next
squares_contain(b, colour, moves, piece_kinds) ==
    Let([i \in 1..Len(moves) |-> Seen(b, colour, moves[i].dest, piece_kinds)],
        LAMBDA seen :
           Let({i \in DOMAIN seen : ~IsOk(seen[i]) \/ seen[i].val}, LAMBDA returns :
               IF returns = {} THEN Ok(FALSE) ELSE seen[First(returns)]))

\* One `attacked |= self.squares_contain(!colour, <generator>?..., kinds)?`
Probe(b, colour, gen, piece_kinds) ==
    IF ~IsOk(gen) THEN Err(gen.err)
    ELSE squares_contain(b, Not(colour), gen.val, piece_kinds)

OrResults(rs) ==
    IF Failed(rs) # {} THEN Err(rs[First(Failed(rs))].err)
    ELSE Ok(\E i \in DOMAIN rs : rs[i].val)

square_under_attack(b, square, colour) ==
    OrResults(<<
        Probe(b, colour, traversal_moves(b, square, colour, SubSeq(QUEEN_DIRECTIONS, 1, 4)),
              {"Queen", "Bishop"}),
        Probe(b, colour, traversal_moves(b, square, colour, SubSeq(QUEEN_DIRECTIONS, 5, 8)),
              {"Queen", "Rook"}),
        Probe(b, colour, offset_moves(b, square, colour, KNIGHT_PATTERN), {"Knight"}),
        Probe(b, colour, offset_moves(b, square, colour, KING_PATTERN), {"King"}),
        Probe(b, colour, pawn_moves(b, square, colour), {"Pawn"}) >>)

king_in_check(b, colour) ==
    Let({i \in DOMAIN b.pieces : b.pieces[i].kind = "King" /\ b.pieces[i].colour = colour},
        LAMBDA kings :
           IF Cardinality(kings) = 1
           THEN square_under_attack(b, b.pieces[First(kings)].square, colour)
           ELSE Err("InvalidBoard"))

\* `can &= a?` over a list of operands: every operand is evaluated in order,
\* the first failure is returned
AllOk(rs) ==
    IF Failed(rs) # {} THEN Err(rs[First(Failed(rs))].err)
    ELSE Ok(\A i \in DOMAIN rs : rs[i].val)

\* One operand of `can`: square_empty(square)? or !square_under_attack(square)?
CastleCheck(b, colour, check) ==
    IF check.empty THEN square_empty(b, check.square)
    ELSE Let(square_under_attack(b, check.square, colour), LAMBDA attacked :
             IF IsOk(attacked) THEN Ok(~attacked.val) ELSE attacked)

Safe(square) == [empty |-> FALSE, square |-> square]

Empty(square) == [empty |-> TRUE, square |-> square]

\* One wing of castle_moves: the right, then the operands of `can`
CastleWing(b, colour, wing) ==
    IF ~Right(b, colour, wing.right) THEN Ok(<<>>)
    ELSE Let(AllOk([i \in 1..Len(wing.checks) |-> CastleCheck(b, colour, wing.checks[i])]),
             LAMBDA can :
                IF ~IsOk(can) THEN can
                ELSE IF can.val THEN Ok(<<SimpleMove(wing.king, wing.dest, None)>>)
                ELSE Ok(<<>>))

\* CastleWings with the queen-side knight square also required unattacked
CastleWings_knight_safe(back_rank) ==
    << [right |-> KINGSIDE, king |-> Sq(4, back_rank), dest |-> Sq(6, back_rank),
        checks |-> << Safe(Sq(4, back_rank)),
                      Empty(Sq(5, back_rank)), Safe(Sq(5, back_rank)),
                      Empty(Sq(6, back_rank)), Safe(Sq(6, back_rank)) >>],
       [right |-> QUEENSIDE, king |-> Sq(4, back_rank), dest |-> Sq(2, back_rank),
        checks |-> << Safe(Sq(4, back_rank)),
                      Empty(Sq(3, back_rank)), Safe(Sq(3, back_rank)),
                      Empty(Sq(2, back_rank)), Safe(Sq(2, back_rank)),
                      Empty(Sq(1, back_rank)), Safe(Sq(1, back_rank)) >>] >>

\* The two wings as (right, operands, destination file)
CastleWings(back_rank) ==
    << [right |-> KINGSIDE, king |-> Sq(4, back_rank), dest |-> Sq(6, back_rank),
        checks |-> << Safe(Sq(4, back_rank)),
                      Empty(Sq(5, back_rank)), Safe(Sq(5, back_rank)),
                      Empty(Sq(6, back_rank)), Safe(Sq(6, back_rank)) >>],
       [right |-> QUEENSIDE, king |-> Sq(4, back_rank), dest |-> Sq(2, back_rank),
        checks |-> << Safe(Sq(4, back_rank)),
                      Empty(Sq(3, back_rank)), Safe(Sq(3, back_rank)),
                      Empty(Sq(2, back_rank)), Safe(Sq(2, back_rank)),
                      Empty(Sq(1, back_rank)) >>] >>

castle_moves(b, colour) ==
    Let(CastleWings(IF colour = "Black" THEN 7 ELSE 0), LAMBDA wings :
        ConcatResults([w \in 1..2 |-> CastleWing(b, colour, wings[w])]))

\* DefaultHasher over (sorted pieces, turn, castling rights, en passant):
\* modelled as the hashed value itself, the sorted Vec as the set of pieces
hash_board_state(b) ==
    [pieces |-> {b.pieces[i] : i \in DOMAIN b.pieces},
     turn |-> b.turn,
     castling_rights |-> b.castling_rights,
     en_passant |-> b.en_passant]

\* The match on piece.kind of piece_plegal_moves
KindMoves(b, piece) ==
    CASE piece.kind = "King" ->
            ConcatResults(<< offset_moves(b, piece.square, piece.colour, KING_PATTERN),
                             castle_moves(b, piece.colour) >>)
      [] piece.kind = "Pawn" ->
            pawn_moves(b, piece.square, piece.colour)
      [] piece.kind = "Knight" ->
            offset_moves(b, piece.square, piece.colour, KNIGHT_PATTERN)
      [] OTHER ->
            traversal_moves(b, piece.square, piece.colour,
                CASE piece.kind = "Queen" -> QUEEN_DIRECTIONS
                  [] piece.kind = "Bishop" -> SubSeq(QUEEN_DIRECTIONS, 1, 4)
                  [] piece.kind = "Rook" -> SubSeq(QUEEN_DIRECTIONS, 5, 8))

piece_plegal_moves(b, square) ==
    Let(get_piece(b, square), LAMBDA p :
        IF ~IsOk(p) THEN Err(p.err)
        ELSE IF \/ p.val.colour # b.turn
                \/ b.halfmove_clock >= HalfmoveLimit
                \/ Cardinality({i \in DOMAIN b.board_history :
                                  b.board_history[i] = hash_board_state(b)}) >= RepetitionLimit
        THEN Ok(<<>>)
        ELSE KindMoves(b, p.val))

all_plegal_moves(b) ==
    ConcatResults([i \in DOMAIN b.pieces |->
        IF b.pieces[i].colour = b.turn
        THEN piece_plegal_moves(b, b.pieces[i].square)
        ELSE Ok(<<>>)])

Contains(s, x) == \E i \in DOMAIN s : s[i] = x

is_move_plegal(b, chess_move) ==
    Let(piece_plegal_moves(b, chess_move.src), LAMBDA moves :
        IF IsOk(moves) THEN Ok(Contains(moves.val, chess_move)) ELSE Err(moves.err))

\* ------------------------------------------------------- move application
\* A failed call leaves the board as mutated up to the point of failure:
\* val carries that board
ErrB(e, b) == [err |-> e, val |-> b]

\* One `if` of castle_rook: the piece found beside the king is moved across
CastleRookStep(b, piece, offset, castle, from, to) ==
    IF piece.kind = "King" /\ offset.file = castle
    THEN IF AddPanics(piece.square, from) THEN ErrB("Panic", b)
         ELSE Let(PiecesAt(b, Add(piece.square, from)), LAMBDA idx :
                  IF idx = {} THEN ErrB("PieceNotFound", b)
                  ELSE IF Cardinality(idx) > 1 THEN ErrB("InvalidBoard", b)
                  ELSE IF AddPanics(piece.square, to) THEN ErrB("Panic", b)
                  ELSE Ok([b EXCEPT !.pieces[First(idx)].square = Add(piece.square, to)]))
    ELSE Ok(b)

castle_rook(b, piece, offset) ==
    Let(CastleRookStep(b, piece, offset, KINGSIDE_CASTLE,
                       SquareOffset(1, 0), SquareOffset(-1, 0)),
        LAMBDA kingside :
           IF ~IsOk(kingside) THEN kingside
           ELSE CastleRookStep(kingside.val, piece, offset, QUEENSIDE_CASTLE,
                               SquareOffset(-2, 0), SquareOffset(1, 0)))

\* Some(square of the pawn to take) as <<square>>, None as <<>>
en_passant_target(b, piece, offset) ==
    IF b.en_passant # <<>> /\ piece.kind = "Pawn" /\ <<piece.square>> = b.en_passant
    THEN <<Add(piece.square, SquareOffset(0, -offset.rank))>>
    ELSE <<>>

en_passant_target_panics(b, piece, offset) ==
    /\ b.en_passant # <<>> /\ piece.kind = "Pawn" /\ <<piece.square>> = b.en_passant
    /\ AddPanics(piece.square, SquareOffset(0, -offset.rank))

\* The step that takes nothing off the board. C5_EnPassant tells it apart
\* from take_en_passant.
take_en_passant_nothing(b, piece, offset) == Ok(b)

take_en_passant(b, piece, offset) ==
    IF en_passant_target_panics(b, piece, offset) THEN ErrB("Panic", b)
    ELSE Let(en_passant_target(b, piece, offset), LAMBDA target :
             IF target = <<>> THEN Ok(b)
             ELSE Let(Position(b.pieces, target[1]), LAMBDA taken_pawn :
                      IF taken_pawn # 0
                      THEN Ok([b EXCEPT !.pieces = Remove(@, taken_pawn)])
                      ELSE ErrB("InvalidBoard", b)))

\* The update with the two rook arms left out: only a king move clears
\* rights. C10_CastlingRights tells it apart from update_castling_rights.
update_castling_rights_king_only(b, piece, chess_move) ==
    LET castling_offset == castling_right_offset(piece.colour)
    IN  IF piece.kind = "King"
        THEN [b EXCEPT !.castling_rights[castling_offset + KINGSIDE + 1] = FALSE,
                       !.castling_rights[castling_offset + QUEENSIDE + 1] = FALSE]
        ELSE b

update_castling_rights(b, piece, chess_move) ==
    LET castling_offset == castling_right_offset(piece.colour)
    IN  IF piece.kind = "King"
        THEN [b EXCEPT !.castling_rights[castling_offset + KINGSIDE + 1] = FALSE,
                       !.castling_rights[castling_offset + QUEENSIDE + 1] = FALSE]
        ELSE IF piece.kind = "Rook" /\ chess_move.src.file = 0
        THEN [b EXCEPT !.castling_rights[castling_offset + QUEENSIDE + 1] = FALSE]
        ELSE IF piece.kind = "Rook" /\ chess_move.src.file = 7
        THEN [b EXCEPT !.castling_rights[castling_offset + KINGSIDE + 1] = FALSE]
        ELSE b

\* The halfmove clock after the moved piece and the taken piece are known
ClockAfter(clock, taken, piece) ==
    IF taken # 0 \/ piece.kind = "Pawn" THEN 0 ELSE clock

\* The tail of move_piece: en passant square, castling rights, side to move
\* and move number, entered with the board take_en_passant returned
EndTurn(r, piece, chess_move, offset, double) ==
    IF ~IsOk(r) THEN r
    ELSE IF double /\ AddPanics(chess_move.src, DivOffset(offset, 2))
    THEN ErrB("Panic", r.val)
    ELSE Let(update_castling_rights(
                 [r.val EXCEPT !.en_passant =
                     IF double THEN <<Add(chess_move.src, DivOffset(offset, 2))>>
                     ELSE <<>>],
                 piece, chess_move),
             LAMBDA b :
                Ok([b EXCEPT !.turn = Not(@),
                             !.fullmove_number = IF b.turn = "Black" THEN @ + 1 ELSE @]))

\* castle_rook(piece, offset)? then take_en_passant(piece, offset)?
Special(r, piece, offset) ==
    IF ~IsOk(r) THEN r ELSE take_en_passant(r.val, piece, offset)

\* move_piece once the piece on the source square is found at index i:
\* b1 is the board with the clock counted and the hash logged
Moved(b1, i, taken_piece, piece, chess_move, offset) ==
    EndTurn(Special(castle_rook(
                [b1 EXCEPT
                   !.pieces = IF taken_piece # 0
                              THEN Remove([@ EXCEPT ![i] = piece], taken_piece)
                              ELSE [@ EXCEPT ![i] = piece],
                   !.halfmove_clock = ClockAfter(@, taken_piece, piece)],
                piece, offset), piece, offset),
            piece, chess_move, offset,
            piece.kind = "Pawn" /\ Abs(offset.rank) = PAWN_DOUBLE_PUSH)

\* The piece as move_piece leaves it: on the destination, promoted if asked
Placed(piece, chess_move) ==
    [piece EXCEPT !.square = chess_move.dest,
                  !.kind = IF chess_move.promote_to # None
                           THEN chess_move.promote_to ELSE @]

move_piece(b, chess_move) ==
    Let2(PiecesAt(b, chess_move.src),
         [b EXCEPT !.halfmove_clock = @ + 1,
                   !.board_history = Append(@, hash_board_state(b))],
         LAMBDA idx, b1 :
            IF idx = {} THEN ErrB("PieceNotFound", b1)
            ELSE IF Cardinality(idx) > 1 THEN ErrB("InvalidBoard", b1)
            ELSE Moved(b1, First(idx),
                       Position(b.pieces, chess_move.dest),
                       Placed(b.pieces[First(idx)], chess_move),
                       chess_move, SubSq(chess_move.dest, chess_move.src)))

\* ------------------------------------------------------------ legal moves
\* The loop body without the king_in_check test: every pseudo-legal move that
\* can be applied is kept. C1_SelfCheck tells it apart from LegalStep.
LegalStep_unfiltered(b, chess_move) ==
    Let(move_piece(b, chess_move), LAMBDA after :
        IF ~IsOk(after) THEN Err(after.err) ELSE Ok(<<chess_move>>))

\* One iteration of the filtering loop of all_legal_moves / piece_legal_moves
LegalStep(b, chess_move) ==
    Let(move_piece(b, chess_move), LAMBDA after :
        IF ~IsOk(after) THEN Err(after.err)
        ELSE Let(king_in_check(after.val, b.turn), LAMBDA check :
                 IF ~IsOk(check) THEN Err(check.err)
                 ELSE IF ~check.val THEN Ok(<<chess_move>>)
                 ELSE Ok(<<>>)))

LegalFilter(b, ms) ==
    IF ~IsOk(ms) THEN Err(ms.err)
    ELSE ConcatResults([i \in 1..Len(ms.val) |-> LegalStep(b, ms.val[i])])

all_legal_moves(b) == LegalFilter(b, all_plegal_moves(b))

piece_legal_moves(b, square) == LegalFilter(b, piece_plegal_moves(b, square))

is_move_legal(b, chess_move) ==
    Let(is_move_plegal(b, chess_move), LAMBDA plegal :
        IF ~IsOk(plegal) THEN Err(plegal.err)
        ELSE IF ~plegal.val THEN Ok(FALSE)
        ELSE Let(LegalStep(b, chess_move), LAMBDA kept :
                 IF ~IsOk(kept) THEN Err(kept.err) ELSE Ok(kept.val # <<>>)))

move_piece_legal(b, chess_move) ==
    Let(is_move_legal(b, chess_move), LAMBDA legal :
        IF ~IsOk(legal) THEN ErrB(legal.err, b)
        ELSE IF legal.val THEN move_piece(b, chess_move)
        ELSE ErrB("IllegalMove", b))

\* The match with the two arms for an empty move list exchanged.
\* C2_StateClassification tells it apart from Classify.
Classify_exchanged(n, check) ==
    IF n = 0 /\ check THEN "Stalemate"
    ELSE IF n = 0 THEN "Checkmate"
    ELSE IF check THEN "Check"
    ELSE "Normal"

\* The match of `state` on (number of legal moves, king in check)
Classify(n, check) ==
    IF n = 0 /\ check THEN "Checkmate"
    ELSE IF n = 0 THEN "Stalemate"
    ELSE IF check THEN "Check"
    ELSE "Normal"

state(b) ==
    Let(all_legal_moves(b), LAMBDA moves :
        IF ~IsOk(moves) THEN Err(moves.err)
        ELSE Let(king_in_check(b, b.turn), LAMBDA check :
                 IF ~IsOk(check) THEN Err(check.err)
                 ELSE Ok(Classify(Len(moves.val), check.val))))

\* --------------------------------------------------------- disambiguation
\* enums.rs AmbiguousMove: one record shape for both variants, the fields
\* of the other variant left at None / <<>>
Normal(piece_kind, src_file, src_rank, takes, dest, promote_to, action) ==
    [variant |-> "Normal", piece_kind |-> piece_kind, src_file |-> src_file,
     src_rank |-> src_rank, takes |-> takes, dest |-> <<dest>>,
     promote_to |-> promote_to, action |-> action, side |-> None]

Castle(side) ==
    [variant |-> "Castle", piece_kind |-> None, src_file |-> <<>>, src_rank |-> <<>>,
     takes |-> FALSE, dest |-> <<>>, promote_to |-> None, action |-> None,
     side |-> side]

\* The closure of the filter in disambiguate_normal, for one legal move:
\* Ok(is_match), or Panic when one of its unwraps fails
ActionMatch(st, action, is_match) ==
    IF ~IsOk(st) THEN Err("Panic") ELSE Ok(is_match /\ st.val = action)

\* The filter without its capture-mark and action-suffix tests.
\* C7_Disambiguation tells it apart from NormalMatch.
NormalMatch_unmarked(b, am, unambiguous_move) ==
    Let(get_piece(b, unambiguous_move.src), LAMBDA src :
        IF ~IsOk(src) THEN Err("Panic")
        ELSE Ok(/\ src.val.kind = am.piece_kind
                /\ (am.src_file # <<>> => <<unambiguous_move.src.file>> = am.src_file)
                /\ (am.src_rank # <<>> => <<unambiguous_move.src.rank>> = am.src_rank)
                /\ <<unambiguous_move.dest>> = am.dest
                /\ unambiguous_move.promote_to = am.promote_to))

\* is_match before the action suffix is looked at: src is the piece on the
\* source square of the legal move
FieldsMatch(b, am, unambiguous_move, src) ==
    /\ src.kind = am.piece_kind
    /\ (am.src_file # <<>> => <<unambiguous_move.src.file>> = am.src_file)
    /\ (am.src_rank # <<>> => <<unambiguous_move.src.rank>> = am.src_rank)
    /\ (am.takes => IsOk(get_piece(b, unambiguous_move.dest)))
    /\ <<unambiguous_move.dest>> = am.dest
    /\ unambiguous_move.promote_to = am.promote_to

\* `is_match &= board.state().unwrap() == action` on the board after the move
AfterMatch(after, action, is_match) ==
    IF ~IsOk(after) THEN Err("Panic")
    ELSE ActionMatch(state(after.val), action, is_match)

NormalMatch(b, am, unambiguous_move) ==
    Let(get_piece(b, unambiguous_move.src), LAMBDA src :
        IF ~IsOk(src) THEN Err("Panic")
        ELSE IF am.action = None
        THEN Ok(FieldsMatch(b, am, unambiguous_move, src.val))
        ELSE AfterMatch(move_piece(b, unambiguous_move), am.action,
                        FieldsMatch(b, am, unambiguous_move, src.val)))

\* The filter keeps the legal move or drops it; a panic inside it ends the call
FilterStep(is_match, unambiguous_move) ==
    IF ~IsOk(is_match) THEN Err(is_match.err)
    ELSE IF is_match.val THEN Ok(<<unambiguous_move>>)
    ELSE Ok(<<>>)

\* The outcome for the filtered list all_moves
MatchOutcome(all_moves) ==
    IF ~IsOk(all_moves) THEN Err(all_moves.err)
    ELSE IF Len(all_moves.val) = 0 THEN Err("ImpossibleMove")
    ELSE IF Len(all_moves.val) = 1 THEN Ok(all_moves.val[1])
    ELSE Err("AmbiguousMove")

FilterLegal(b, am, legal) ==
    IF ~IsOk(legal) THEN Err(legal.err)
    ELSE MatchOutcome(ConcatResults([i \in 1..Len(legal.val) |->
            FilterStep(NormalMatch(b, am, legal.val[i]), legal.val[i])]))

disambiguate_normal(b, am) == FilterLegal(b, am, all_legal_moves(b))

\* The king move to the g-file whatever the side asked for.
\* C8_DisambiguationResult tells it apart from disambiguate_castling.
disambiguate_castling_kingside(b, am) ==
    SimpleMove(Sq(4, IF b.turn = "Black" THEN 7 ELSE 0),
               Sq(6, IF b.turn = "Black" THEN 7 ELSE 0), None)

disambiguate_castling(b, am) ==
    SimpleMove(IF b.turn = "Black" THEN Sq(4, 7) ELSE Sq(4, 0),
               Sq(IF am.side = "QueenSide" THEN 2 ELSE 6,
                  IF b.turn = "Black" THEN 7 ELSE 0), None)

disambiguate_move_internal(b, am) ==
    IF am.variant = "Normal" THEN disambiguate_normal(b, am)
    ELSE Ok(disambiguate_castling(b, am))

\* --------------------------------------------------------- construction
\* parser/fen.rs `rank`: a piece letter fills one square, a digit skips that
\* many; a row is given as its sequence of characters
DigitValue == [c \in {"1", "2", "3", "4", "5", "6", "7", "8"} |->
                 CASE c = "1" -> 1 [] c = "2" -> 2 [] c = "3" -> 3 [] c = "4" -> 4
                   [] c = "5" -> 5 [] c = "6" -> 6 [] c = "7" -> 7 [] c = "8" -> 8]

RECURSIVE rank(_, _)
rank(chars, i) ==
    IF i > Len(chars) THEN <<>>
    ELSE (IF chars[i] \in DOMAIN DigitValue
          THEN [k \in 1..DigitValue[chars[i]] |-> ""]
          ELSE <<chars[i]>>) \o rank(chars, i + 1)

\* parser/fen.rs white_piece / black_piece
PieceKindOf(c) ==
    CASE c \in {"K", "k"} -> "King"   [] c \in {"Q", "q"} -> "Queen"
      [] c \in {"R", "r"} -> "Rook"   [] c \in {"B", "b"} -> "Bishop"
      [] c \in {"N", "n"} -> "Knight" [] c \in {"P", "p"} -> "Pawn"

PieceColourOf(c) ==
    IF c \in {"K", "Q", "R", "B", "N", "P"} THEN "White" ELSE "Black"

\* parser/fen.rs `fen` with all six fields present
ParseFen(rows, turn, castling_rights, en_passant, halfmove_clock, fullmove_number) ==
    [layout |-> [i \in 1..8 |-> rank(rows[i], 1)],
     turn |-> IF turn = "w" THEN "White" ELSE "Black",
     castling_rights |-> castling_rights,
     en_passant |-> en_passant,
     halfmove_clock |-> halfmove_clock,
     fullmove_number |-> fullmove_number]

\* impl From<Fen> for ChessBoard: layout[i][j] (0-based) is the square
\* (file j, rank 7 - i); pieces are pushed rank 8 first, file a first.
\* The inner loop, over the squares j.. of row i:
RECURSIVE RankPieces(_, _, _)
RankPieces(row, i, j) ==
    IF j > 7 THEN <<>>
    ELSE (IF row[j + 1] = "" THEN <<>>
          ELSE <<ChessPiece(Sq(j, 7 - i), PieceKindOf(row[j + 1]),
                            PieceColourOf(row[j + 1]))>>)
         \o RankPieces(row, i, j + 1)

\* The outer loop, over the rows i..
RECURSIVE LayoutPieces(_, _)
LayoutPieces(layout, i) ==
    IF i > 7 THEN <<>>
    ELSE RankPieces(layout[i + 1], i, 0) \o LayoutPieces(layout, i + 1)

FromFen(value) ==
    [pieces |-> LayoutPieces(value.layout, 0),
     turn |-> value.turn,
     en_passant |-> value.en_passant,
     castling_rights |-> value.castling_rights,
     halfmove_clock |-> value.halfmove_clock,
     fullmove_number |-> value.fullmove_number,
     board_history |-> <<>>]

\* Starting positions (ChessBoard::from_fen): pins, checks, mate and stalemate
CheckFens ==
    <<
      \* k3r3/8/4N3/8/4K3/8/8/8 w - - 0 2  (test pinned_piece)
      ParseFen(<<<<"k", "3", "r", "3">>, <<"8">>, <<"4", "N", "3">>, <<"8">>, <<"4", "K", "3">>, <<"8">>, <<"8">>, <<"8">>>>,
               "w", <<FALSE, FALSE, FALSE, FALSE>>, <<>>, 0, 2),
      \* k7/8/1K6/8/8/8/8/2Q5 w - - 0 1  (mate and stalemate one move away)
      ParseFen(<<<<"k", "7">>, <<"8">>, <<"1", "K", "6">>, <<"8">>, <<"8">>, <<"8">>, <<"8">>, <<"2", "Q", "5">>>>,
               "w", <<FALSE, FALSE, FALSE, FALSE>>, <<>>, 0, 1)
    >>

\* Starting positions (ChessBoard::from_fen): castling
CastleFens ==
    <<
      \* 4k3/8/8/8/8/6n1/8/4K2R b K - 0 1  (king-side rook under attack)
      ParseFen(<<<<"4", "k", "3">>, <<"8">>, <<"8">>, <<"8">>, <<"8">>, <<"6", "n", "1">>, <<"8">>, <<"4", "K", "2", "R">>>>,
               "b", <<TRUE, FALSE, FALSE, FALSE>>, <<>>, 0, 1),
      \* r3k3/p7/8/8/8/8/P7/R3K3 w Qq - 0 1  (queen-side castling, both sides)
      ParseFen(<<<<"r", "3", "k", "3">>, <<"p", "7">>, <<"8">>, <<"8">>, <<"8">>, <<"8">>, <<"P", "7">>, <<"R", "3", "K", "3">>>>,
               "w", <<FALSE, TRUE, FALSE, TRUE>>, <<>>, 0, 1),
      \* 4k2r/7p/8/8/8/8/7P/4K2R w Kk - 0 1  (king-side castling, both sides)
      ParseFen(<<<<"4", "k", "2", "r">>, <<"7", "p">>, <<"8">>, <<"8">>, <<"8">>, <<"8">>, <<"7", "P">>, <<"4", "K", "2", "R">>>>,
               "w", <<TRUE, FALSE, TRUE, FALSE>>, <<>>, 0, 1)
    >>

\* Starting positions (ChessBoard::from_fen): en passant and promotion
PawnFens ==
    <<
      \* 7k/2p5/8/KP5r/8/8/8/8 b - - 0 1  (en passant that would expose the king)
      ParseFen(<<<<"7", "k">>, <<"2", "p", "5">>, <<"8">>, <<"K", "P", "5", "r">>, <<"8">>, <<"8">>, <<"8">>, <<"8">>>>,
               "b", <<FALSE, FALSE, FALSE, FALSE>>, <<>>, 0, 1),
      \* 4k3/6p1/8/5P2/8/8/8/4K3 b - - 0 2  (en passant by White)
      ParseFen(<<<<"4", "k", "3">>, <<"6", "p", "1">>, <<"8">>, <<"5", "P", "2">>, <<"8">>, <<"8">>, <<"8">>, <<"4", "K", "3">>>>,
               "b", <<FALSE, FALSE, FALSE, FALSE>>, <<>>, 0, 2),
      \* 4k3/8/8/8/2p5/8/3P4/4K3 w - - 0 1  (en passant by Black)
      ParseFen(<<<<"4", "k", "3">>, <<"8">>, <<"8">>, <<"8">>, <<"2", "p", "5">>, <<"8">>, <<"3", "P", "4">>, <<"4", "K", "3">>>>,
               "w", <<FALSE, FALSE, FALSE, FALSE>>, <<>>, 0, 1),
      \* 3n4/4P3/8/8/8/k7/8/7K w - - 5 10  (white promotion by push and capture)
      ParseFen(<<<<"3", "n", "4">>, <<"4", "P", "3">>, <<"8">>, <<"8">>, <<"8">>, <<"k", "7">>, <<"8">>, <<"7", "K">>>>,
               "w", <<FALSE, FALSE, FALSE, FALSE>>, <<>>, 5, 10),
      \* 7k/8/K7/8/8/8/4p3/3N4 b - - 7 10  (black promotion by push and capture)
      ParseFen(<<<<"7", "k">>, <<"8">>, <<"K", "7">>, <<"8">>, <<"8">>, <<"8">>, <<"4", "p", "3">>, <<"3", "N", "4">>>>,
               "b", <<FALSE, FALSE, FALSE, FALSE>>, <<>>, 7, 10)
    >>

\* Starting positions (ChessBoard::from_fen): the halfmove clock at its limits
ClockFens ==
    <<
      \* 4k3/8/8/8/8/8/8/4RK2 b - - 100 80  (clock at 100, in check with escapes)
      ParseFen(<<<<"4", "k", "3">>, <<"8">>, <<"8">>, <<"8">>, <<"8">>, <<"8">>, <<"8">>, <<"4", "R", "K", "2">>>>,
               "b", <<FALSE, FALSE, FALSE, FALSE>>, <<>>, 100, 80),
      \* 4k3/8/8/8/8/8/P7/R3K3 w - - 49 30  (clock one ply below the limit of the code)
      ParseFen(<<<<"4", "k", "3">>, <<"8">>, <<"8">>, <<"8">>, <<"8">>, <<"8">>, <<"P", "7">>, <<"R", "3", "K", "3">>>>,
               "w", <<FALSE, FALSE, FALSE, FALSE>>, <<>>, 49, 30)
    >>

\* Starting positions (ChessBoard::from_fen): positions PGN moves are resolved in
PgnFens ==
    <<
      \* 8/8/4k3/3p4/2P1P3/8/8/K7 w - - 0 1  (two pawns capture on d5 with check)
      ParseFen(<<<<"8">>, <<"8">>, <<"4", "k", "3">>, <<"3", "p", "4">>, <<"2", "P", "1", "P", "3">>, <<"8">>, <<"8">>, <<"K", "7">>>>,
               "w", <<FALSE, FALSE, FALSE, FALSE>>, <<>>, 0, 1),
      \* k7/2P5/1K6/8/8/8/8/8 w - - 0 1  (promotion with mate, check or neither)
      ParseFen(<<<<"k", "7">>, <<"2", "P", "5">>, <<"1", "K", "6">>, <<"8">>, <<"8">>, <<"8">>, <<"8">>, <<"8">>>>,
               "w", <<FALSE, FALSE, FALSE, FALSE>>, <<>>, 0, 1),
      \* 4k3/6p1/8/5P2/8/8/8/4K3 b - - 0 2  (en passant by White)
      ParseFen(<<<<"4", "k", "3">>, <<"6", "p", "1">>, <<"8">>, <<"5", "P", "2">>, <<"8">>, <<"8">>, <<"8">>, <<"4", "K", "3">>>>,
               "b", <<FALSE, FALSE, FALSE, FALSE>>, <<>>, 0, 2),
      \* 4k3/8/8/8/8/8/7P/4K2R w K - 0 1  (king-side castling)
      ParseFen(<<<<"4", "k", "3">>, <<"8">>, <<"8">>, <<"8">>, <<"8">>, <<"8">>, <<"7", "P">>, <<"4", "K", "2", "R">>>>,
               "w", <<TRUE, FALSE, FALSE, FALSE>>, <<>>, 0, 1)
    >>

\* Starting position (ChessBoard::starting_board)
StartFens ==
    <<
      \* rnbqkbnr/pppppppp/8/8/8/8/PPPPPPPP/RNBQKBNR w KQkq - 0 1
      ParseFen(<<<<"r", "n", "b", "q", "k", "b", "n", "r">>,
                 <<"p", "p", "p", "p", "p", "p", "p", "p">>,
                 <<"8">>, <<"8">>, <<"8">>, <<"8">>,
                 <<"P", "P", "P", "P", "P", "P", "P", "P">>,
                 <<"R", "N", "B", "Q", "K", "B", "N", "R">>>>,
               "w", <<TRUE, TRUE, TRUE, TRUE>>, <<>>, 0, 1)
    >>

\* parser/fen.rs `fen` on the text after the en passant field, given as its
\* sequence of characters.
\* nom multispace0: the input with its leading white space dropped
multispace0(input) ==
    SubSeq(input, First({i \in 1..(Len(input) + 1) : i > Len(input) \/ input[i] # " "}),
           Len(input))

DecimalDigit == [c \in {"0", "1", "2", "3", "4", "5", "6", "7", "8", "9"} |->
                   CASE c = "0" -> 0 [] c = "1" -> 1 [] c = "2" -> 2 [] c = "3" -> 3
                     [] c = "4" -> 4 [] c = "5" -> 5 [] c = "6" -> 6 [] c = "7" -> 7
                     [] c = "8" -> 8 [] c = "9" -> 9]

\* The number of leading decimal digits of the input
DigitRun(input) ==
    First({n \in 0..Len(input) : n = Len(input) \/ input[n + 1] \notin DOMAIN DecimalDigit})

\* The value of the digits input[1..n]
RECURSIVE DecimalValue(_, _)
DecimalValue(input, n) ==
    IF n = 0 THEN 0 ELSE DecimalValue(input, n - 1) * 10 + DecimalDigit[input[n]]

\* nom opt(u32): Some(number) and the rest of the input when the input
\* starts with digits, None and the input itself when it does not
opt_u32(input) ==
    IF DigitRun(input) = 0 THEN [val |-> <<>>, rest |-> input]
    ELSE [val |-> <<DecimalValue(input, DigitRun(input))>>,
          rest |-> SubSeq(input, DigitRun(input) + 1, Len(input))]

\* Option::unwrap_or
unwrap_or(option, default) == IF option = <<>> THEN default ELSE option[1]

\* parser/fen.rs `fen`: what is left of the input after the second number
\* is returned with the Fen and dropped by from_fen
fen(rows, turn, castling_rights, en_passant, tail) ==
    Let(opt_u32(multispace0(tail)), LAMBDA halfmove_clock :
        ParseFen(rows, turn, castling_rights, en_passant,
                 unwrap_or(halfmove_clock.val, 0),
                 unwrap_or(opt_u32(multispace0(halfmove_clock.rest)).val, 0)))

\* The text that may follow the en passant field: nothing, white space, one
\* number, two numbers, a word
FenTails ==
    << <<>>, <<" ">>, <<" ", "7">>, <<" ", "0", " ", "1">>,
       <<" ", "1", "2", " ", "3", "4">>, <<" ", "x">> >>

\* Starting positions (ChessBoard::from_fen) whose last two fields vary:
\* 4k3/8/8/8/8/8/P7/R3K3 w Q - and 4k3/7p/8/8/8/8/8/4K3 b - -, each followed
\* by the i-th tail
TailFens ==
    [i \in 1..(2 * Len(FenTails)) |->
        IF i <= Len(FenTails)
        THEN fen(<<<<"4", "k", "3">>, <<"8">>, <<"8">>, <<"8">>, <<"8">>, <<"8">>, <<"P", "7">>, <<"R", "3", "K", "3">>>>,
                 "w", <<FALSE, TRUE, FALSE, FALSE>>, <<>>, FenTails[i])
        ELSE fen(<<<<"4", "k", "3">>, <<"7", "p">>, <<"8">>, <<"8">>, <<"8">>, <<"8">>, <<"8">>, <<"4", "K", "3">>>>,
                 "b", <<FALSE, FALSE, FALSE, FALSE>>, <<>>, FenTails[i - Len(FenTails)])]

\* ------------------------------------------------------------- PGN text
\* The input is a sequence of characters; a parser is given the index of
\* the next character and answers Done(value, index of the character after
\* what it consumed) or Err("Error")
Done(v, at) == [err |-> "Ok", val |-> v, at |-> at]

\* The character at index i, "" past the end of the input
Char(s, i) == IF i \in DOMAIN s THEN s[i] ELSE ""

char_to_file == [c \in {"a", "b", "c", "d", "e", "f", "g", "h"} |->
                   CASE c = "a" -> 0 [] c = "b" -> 1 [] c = "c" -> 2 [] c = "d" -> 3
                     [] c = "e" -> 4 [] c = "f" -> 5 [] c = "g" -> 6 [] c = "h" -> 7]

char_to_rank == [c \in {"1", "2", "3", "4", "5", "6", "7", "8"} |->
                   CASE c = "1" -> 0 [] c = "2" -> 1 [] c = "3" -> 2 [] c = "4" -> 3
                     [] c = "5" -> 4 [] c = "6" -> 5 [] c = "7" -> 6 [] c = "8" -> 7]

pgn_square(s, i) ==
    IF Char(s, i) \in DOMAIN char_to_file /\ Char(s, i + 1) \in DOMAIN char_to_rank
    THEN Done(Sq(char_to_file[s[i]], char_to_rank[s[i + 1]]), i + 2)
    ELSE Err("Error")

pgn_dest(s, i) ==
    Let(pgn_square(s, IF Char(s, i) = "x" THEN i + 1 ELSE i), LAMBDA sq :
        IF IsOk(sq) THEN Done([takes |-> Char(s, i) = "x", dest |-> sq.val], sq.at)
        ELSE sq)

\* alt of: opt(file), opt(rank), dest; and dest alone. file ends at j1 and
\* rank at j2
disambiguated_move(s, i) ==
    Let(IF Char(s, i) \in DOMAIN char_to_file THEN i + 1 ELSE i, LAMBDA j1 :
    Let(IF Char(s, j1) \in DOMAIN char_to_rank THEN j1 + 1 ELSE j1, LAMBDA j2 :
    Let2(pgn_dest(s, j2), pgn_dest(s, i), LAMBDA first, second :
        IF IsOk(first)
        THEN Done([src_file |-> IF j1 > i THEN <<char_to_file[s[i]]>> ELSE <<>>,
                   src_rank |-> IF j2 > j1 THEN <<char_to_rank[s[j1]]>> ELSE <<>>,
                   takes |-> first.val.takes, dest |-> first.val.dest], first.at)
        ELSE IF IsOk(second)
        THEN Done([src_file |-> <<>>, src_rank |-> <<>>,
                   takes |-> second.val.takes, dest |-> second.val.dest], second.at)
        ELSE second)))

pgn_piece(s, i) ==
    IF Char(s, i) \in {"Q", "K", "N", "B", "R"} THEN Done(PieceKindOf(s[i]), i + 1)
    ELSE Done("Pawn", i)

\* opt(promotion)
pgn_promotion(s, i) == IF Char(s, i) = "=" THEN pgn_piece(s, i + 1) ELSE Done(None, i)

\* opt(action)
pgn_action(s, i) ==
    IF Char(s, i) = "+" THEN Done("Check", i + 1)
    ELSE IF Char(s, i) = "#" THEN Done("Checkmate", i + 1)
    ELSE Done(None, i)

normal_move(s, i) ==
    Let(pgn_piece(s, i), LAMBDA piece_kind :
    Let(disambiguated_move(s, piece_kind.at), LAMBDA d :
        IF ~IsOk(d) THEN d
        ELSE Let(pgn_promotion(s, d.at), LAMBDA promote_to :
             Let(pgn_action(s, promote_to.at), LAMBDA act :
                 Done(Normal(piece_kind.val, d.val.src_file, d.val.src_rank,
                             d.val.takes, d.val.dest, promote_to.val, act.val),
                      act.at)))))

pgn_chess_move(s, i) ==
    Let(normal_move(s, i), LAMBDA normal :
        IF IsOk(normal) THEN normal
        ELSE IF i + 4 <= Len(s) /\ SubSeq(s, i, i + 4) = <<"O", "-", "O", "-", "O">>
        THEN Done(Castle("QueenSide"), i + 5)
        ELSE IF i + 2 <= Len(s) /\ SubSeq(s, i, i + 2) = <<"O", "-", "O">>
        THEN Done(Castle("KingSide"), i + 3)
        ELSE Err("Error"))

\* The index of the first character from i on that fails the test, one
\* past the end of the input when every character passes
Span(s, i, Passes(_)) ==
    First({j \in i..(Len(s) + 1) : j > Len(s) \/ ~Passes(s[j])})

\* many0(alt((enclosed_comment, eol_comment, multispace1, move_number))):
\* the index at which none of the four applies
RECURSIVE Skip(_, _)
Skip(s, i) ==
    Let(IF Char(s, i) = "{"
        THEN IF \E j \in (i + 1)..Len(s) : s[j] = "}"
             THEN Span(s, i + 1, LAMBDA c : c # "}") + 1
             ELSE i
        ELSE IF Char(s, i) = ";"
        THEN IF Span(s, i + 1, LAMBDA c : c \notin {"\n", "\r"}) > i + 1
             THEN Span(s, i + 1, LAMBDA c : c \notin {"\n", "\r"})
             ELSE i
        ELSE IF Char(s, i) \in {" ", "\t", "\n", "\r"}
        THEN Span(s, i, LAMBDA c : c \in {" ", "\t", "\n", "\r"})
        ELSE IF Char(s, i) \in DOMAIN DecimalDigit
                /\ Char(s, Span(s, i, LAMBDA c : c \in DOMAIN DecimalDigit)) = "."
        THEN Span(s, Span(s, i, LAMBDA c : c \in DOMAIN DecimalDigit), LAMBDA c : c = ".")
        ELSE i,
        LAMBDA j : IF j = i THEN i ELSE Skip(s, j))

move_without_comments(s, i) == pgn_chess_move(s, Skip(s, i))

\* many1(move_without_comments): the moves parsed up to the first failure;
\* an error when the first attempt fails
RECURSIVE Moves(_, _, _)
Moves(s, i, moves) ==
    Let(move_without_comments(s, i), LAMBDA next :
        IF IsOk(next) THEN Moves(s, next.at, Append(moves, next.val))
        ELSE IF moves = <<>> THEN next
        ELSE Done(moves, i))

\* many0(multispace0, tag_pair): the index after the last tag pair. A tag
\* pair is "[", a key without spaces, white space, a value, "]"
RECURSIVE TagPairs(_, _)
TagPairs(s, i) ==
    Let2(Span(s, i, LAMBDA c : c \in {" ", "\t", "\n", "\r"}),
         Span(s, Span(s, i, LAMBDA c : c \in {" ", "\t", "\n", "\r"}) + 1,
              LAMBDA c : c # "]"),
         LAMBDA open, close :
            IF /\ Char(s, open) = "[" /\ Char(s, close) = "]" /\ close > open + 1
               /\ Char(s, open + 1) # " "
               /\ Span(s, Span(s, open + 1, LAMBDA c : c # " "),
                       LAMBDA c : c \in {" ", "\t", "\n", "\r"}) < close
            THEN TagPairs(s, close + 1)
            ELSE i)

pgn(s) == Moves(s, TagPairs(s, 1), <<>>)

\* What is left of the input after the last move parsed is dropped
pgn_to_moves(input) ==
    Let(pgn(input), LAMBDA r : IF IsOk(r) THEN Ok(r.val) ELSE Err("InvalidPGN"))

\* The words PGN texts are made of, each with the move it writes (<<>> when
\* it writes none): moves, a move number, two comments, a tag pair, a NAG,
\* an unknown word
Tokens ==
    << [text |-> <<"e", "4">>,
        move |-> <<Normal("Pawn", <<>>, <<>>, FALSE, Sq(4, 3), None, None)>>],
       [text |-> <<"N", "g", "x", "f", "3", "+">>,
        move |-> <<Normal("Knight", <<6>>, <<>>, TRUE, Sq(5, 2), None, "Check")>>],
       [text |-> <<"e", "8", "=", "Q", "#">>,
        move |-> <<Normal("Pawn", <<>>, <<>>, FALSE, Sq(4, 7), "Queen", "Checkmate")>>],
       [text |-> <<"O", "-", "O">>, move |-> <<Castle("KingSide")>>],
       [text |-> <<"1", "2", ".">>, move |-> <<>>],
       [text |-> <<"{", "e", "5", "}">>, move |-> <<>>],
       [text |-> <<";", "e", "5", "\n">>, move |-> <<>>],
       [text |-> <<"[", "a", " ", "b", "]">>, move |-> <<>>],
       [text |-> <<"$", "1">>, move |-> <<>>],
       [text |-> <<"z", "z">>, move |-> <<>>] >>

\* The texts of at most n words, as sequences of indices into Tokens
RECURSIVE Texts(_)
Texts(n) ==
    IF n = 0 THEN {<<>>}
    ELSE Texts(n - 1) \cup {Append(t, k) : t \in Texts(n - 1), k \in DOMAIN Tokens}

\* The characters of a text: its words, each after a space
RECURSIVE Chars(_, _)
Chars(words, i) ==
    IF i > Len(words) THEN <<>>
    ELSE <<" ">> \o Tokens[words[i]].text \o Chars(words, i + 1)

InitFens == CheckFens \o CastleFens \o PawnFens \o ClockFens

\* ------------------------------------------------------------ the machine
VARIABLES
    board,   \* the ChessBoard
    plies,   \* number of moves applied since construction
    call     \* the last call made on the board: operation, argument, outcome
             \* (err, val) and the board it was made on

vars == <<board, plies, call>>

InitFrom(fens) ==
    /\ \E i \in DOMAIN fens : board = FromFen(fens[i])
    /\ plies = 0
    /\ call = [op |-> "from_fen", arg |-> <<>>, err |-> "Ok", val |-> <<>>,
               before |-> <<>>]

Init == InitFrom(InitFens)

\* Moves a caller hands to move_piece_legal: every pseudo-legal move of the
\* position, and a move from a square that may hold no piece
PlegalSet(b) ==
    Let(all_plegal_moves(b), LAMBDA moves :
        IF IsOk(moves) THEN Range(moves.val) ELSE {})

MoveInputs(b) == PlegalSet(b) \cup {SimpleMove(Sq(0, 3), Sq(0, 4), None)}

\* A panic ends the process; a query leaves the board as it is, so the run
\* goes on from the state it was made in
Running == call.err # "Panic" /\ call.op # "disambiguate_move_internal"

MovePieceLegal(chess_move) ==
    /\ Running
    /\ plies < MaxPlies
    /\ \E r \in {move_piece_legal(board, chess_move)} :
          /\ board' = r.val
          /\ plies' = IF IsOk(r) THEN plies + 1 ELSE plies
          /\ call' = [op |-> "move_piece_legal", arg |-> chess_move, err |-> r.err,
                      val |-> <<>>, before |-> board]

\* PGN moves a caller asks about: each pseudo-legal move written plainly,
\* with its source rank and the capture mark, and with its source file and
\* an action suffix ("+" on moves of pieces other than the king, "#" on
\* promotions); both castling moves; a move no piece can make
\* The three ways the move m of a piece of kind k is written
Written(b, m, k) ==
    { Normal(k, <<>>, <<>>, FALSE, m.dest, m.promote_to, None),
      Normal(k, <<>>, <<m.src.rank>>, TRUE, m.dest, m.promote_to, None),
      Normal(k, <<m.src.file>>, <<>>, Occupied(b, m.dest), m.dest, m.promote_to,
             IF k = "King" THEN None
             ELSE IF m.promote_to = None THEN "Check" ELSE "Checkmate") }

AmbInputs(b) ==
    UNION { Written(b, m, get_piece(b, m.src).val.kind) : m \in PlegalSet(b) }
    \cup { Castle("KingSide"), Castle("QueenSide"),
           Normal("Bishop", <<>>, <<>>, FALSE, Sq(3, 3), None, None) }

Disambiguate(am) ==
    /\ Running
    /\ \E r \in {disambiguate_move_internal(board, am)} :
           call' = [op |-> "disambiguate_move_internal", arg |-> am, err |-> r.err,
                    val |-> r.val, before |-> board]
    /\ UNCHANGED <<board, plies>>

Next == \E chess_move \in MoveInputs(board) : MovePieceLegal(chess_move)

NextPgn ==
    \/ plies < MaxPgnPlies
       /\ \E chess_move \in MoveInputs(board) : MovePieceLegal(chess_move)
    \/ \E am \in AmbInputs(board) : Disambiguate(am)

\* Games from every starting position
Spec == Init /\ [][Next]_vars

\* Games in which kings are pinned against, checked and mated
SpecCheck == InitFrom(CheckFens \o SubSeq(PawnFens, 1, 1)) /\ [][Next]_vars

\* Games with castling rights
SpecCastle == InitFrom(CastleFens) /\ [][Next]_vars

\* Games with en passant captures and promotions
SpecPawn == InitFrom(PawnFens) /\ [][Next]_vars

\* Games in which PGN moves are resolved against the position
SpecPgn == InitFrom(PgnFens) /\ [][NextPgn]_vars

\* Boards built from FENs whose last two fields are present, absent or not
\* numbers: call.arg is the text after the en passant field
InitTails ==
    /\ \E i \in DOMAIN TailFens :
          /\ board = FromFen(TailFens[i])
          /\ call = [op |-> "from_fen",
                     arg |-> FenTails[((i - 1) % Len(FenTails)) + 1],
                     err |-> "Ok", val |-> <<>>, before |-> <<>>]
    /\ plies = 0

\* Games from boards built from FENs that end early
SpecFen == InitTails /\ [][Next]_vars

\* notation::pgn_to_moves on the characters of a text; the words are kept
\* in call.arg. The parser is a pure function: it is called once
PgnToMoves(words) ==
    /\ call.op = "from_fen"
    /\ \E r \in {pgn_to_moves(Chars(words, 1))} :
           call' = [op |-> "pgn_to_moves", arg |-> words, err |-> r.err,
                    val |-> r.val, before |-> board]
    /\ UNCHANGED <<board, plies>>

NextText == \E words \in Texts(MaxWords) : PgnToMoves(words)

\* PGN texts parsed into moves
SpecText == InitFrom(StartFens) /\ [][NextText]_vars

\* The knight moves of the test threefold_repetition: g1f3, g8f6, f3g1, f6g8
ShuffleMoves ==
    { SimpleMove(Sq(6, 0), Sq(5, 2), None), SimpleMove(Sq(6, 7), Sq(5, 5), None),
      SimpleMove(Sq(5, 2), Sq(6, 0), None), SimpleMove(Sq(5, 5), Sq(6, 7), None) }

\* move_piece called directly, as the tests call it: a failed call leaves
\* the board as the call had changed it when it failed
MovePiece(chess_move) ==
    /\ call.err # "Panic"
    /\ Len(board.board_history) < MaxCalls
    /\ \E r \in {move_piece(board, chess_move)} :
          /\ board' = r.val
          /\ plies' = IF IsOk(r) THEN plies + 1 ELSE plies
          /\ call' = [op |-> "move_piece", arg |-> chess_move, err |-> r.err,
                      val |-> <<>>, before |-> board]

\* The shuffle moves the position offers, and a move from the empty square a4
NextRepeat ==
    \E chess_move \in (PlegalSet(board) \cap ShuffleMoves)
                          \cup {SimpleMove(Sq(0, 3), Sq(0, 4), None)} :
        MovePiece(chess_move)

\* Knights shuffled from the starting position until positions repeat
SpecRepeat == InitFrom(StartFens) /\ [][NextRepeat]_vars

\* Games from the starting position of chess
SpecStart == InitFrom(StartFens) /\ [][Next]_vars

\* Starting positions (ChessBoard::from_fen): a king next to its far back rank
FarRankFens ==
    <<
      \* 8/k1K5/8/8/8/8/8/2Q5 w - - 2 2  (White king on the seventh rank)
      ParseFen(<<<<"8">>, <<"k", "1", "K", "5">>, <<"8">>, <<"8">>, <<"8">>, <<"8">>, <<"8">>, <<"2", "Q", "5">>>>,
               "w", <<FALSE, FALSE, FALSE, FALSE>>, <<>>, 2, 2),
      \* 8/8/8/8/8/8/2k1K3/7r b - - 2 2  (Black king on the second rank)
      ParseFen(<<<<"8">>, <<"8">>, <<"8">>, <<"8">>, <<"8">>, <<"8">>, <<"2", "k", "1", "K", "3">>, <<"7", "r">>>>,
               "b", <<FALSE, FALSE, FALSE, FALSE>>, <<>>, 2, 2)
    >>

\* Games with a king next to its far back rank
SpecFarRank == InitFrom(FarRankFens) /\ [][Next]_vars

\* Starting positions (ChessBoard::from_fen): a second rook and a pawn on the
\* file of a rook that has not moved
RookFens ==
    <<
      \* 4k3/P7/8/8/8/R7/8/R3K3 w Q - 0 1  (the h-rook has gone to a3)
      ParseFen(<<<<"4", "k", "3">>, <<"P", "7">>, <<"8">>, <<"8">>, <<"8">>, <<"R", "7">>, <<"8">>, <<"R", "3", "K", "3">>>>,
               "w", <<FALSE, TRUE, FALSE, FALSE>>, <<>>, 0, 1),
      \* 4k2r/8/7r/8/8/8/7p/4K3 b k - 0 1  (the a-rook has gone to h6)
      ParseFen(<<<<"4", "k", "2", "r">>, <<"8">>, <<"7", "r">>, <<"8">>, <<"8">>, <<"8">>, <<"7", "p">>, <<"4", "K", "3">>>>,
               "b", <<FALSE, FALSE, TRUE, FALSE>>, <<>>, 0, 1)
    >>

\* Games with a rook or pawn on the file of an unmoved rook
SpecRook == InitFrom(RookFens) /\ [][Next]_vars

\* ------------------------------------------------------- rendering as FEN
\* SimplePiece::as_fen: the letter of a piece, upper case for White
as_fen(kind, colour) ==
    IF colour = "White"
    THEN CASE kind = "King" -> "K"   [] kind = "Queen" -> "Q"
           [] kind = "Rook" -> "R"   [] kind = "Bishop" -> "B"
           [] kind = "Knight" -> "N" [] kind = "Pawn" -> "P"
    ELSE CASE kind = "King" -> "k"   [] kind = "Queen" -> "q"
           [] kind = "Rook" -> "r"   [] kind = "Bishop" -> "b"
           [] kind = "Knight" -> "n" [] kind = "Pawn" -> "p"

\* impl TryFrom<&ChessBoard> for Fen: layout[i][j] (1-based) is the square
\* (j-1, 8-i); InvalidBoard when get_piece fails so on some square
try_from(value) ==
    IF \E f, r \in 0..7 : get_piece(value, Sq(f, r)).err = "InvalidBoard"
    THEN Err("InvalidBoard")
    ELSE Ok([layout |-> [i \in 1..8 |-> [j \in 1..8 |->
                            LET piece == get_piece(value, Sq(j - 1, 8 - i))
                            IN  IF IsOk(piece)
                                THEN as_fen(piece.val.kind, piece.val.colour)
                                ELSE ""]],
             turn |-> value.turn,
             castling_rights |-> value.castling_rights,
             en_passant |-> value.en_passant,
             halfmove_clock |-> value.halfmove_clock,
             fullmove_number |-> value.fullmove_number])

\* ---------------------------------------------------------------- bitboard
\* A BitSquare, the u64 1 << n, is written as its bit number n; a BitSquares
\* word is the set of the bit numbers that are set in it
PIECE_KINDS == <<"King", "Queen", "Rook", "Bishop", "Knight", "Pawn">>

BitSquare_new(f, r) == f + r * 8

BitSquare_file(square) == square % 8

BitSquare_rank(square) == square \div 8

\* A BitMove and a SimplePiece are records of their fields

\* impl ChessBoard for PieceMap: get_piece
PieceMap_get_piece(map, square) ==
    LET kinds == {k \in DOMAIN PIECE_KINDS : square \in map.pieces[PIECE_KINDS[k]]}
    IN  IF kinds = {} THEN Err("PieceNotFound")
        ELSE Ok([kind |-> PIECE_KINDS[First(kinds)],
                 colour |-> IF square \in map.colour THEN "White" ELSE "Black"])

add_piece(map, square, piece) ==
    [pieces |-> [map.pieces EXCEPT ![piece.kind] = @ \cup {square}],
     colour |-> IF piece.colour = "White" THEN map.colour \cup {square}
                ELSE map.colour \ {square}]

\* The kind words are cleared; the colour word is left as it is
remove_piece(map, square) ==
    [map EXCEPT !.pieces = [kind \in DOMAIN map.pieces |-> map.pieces[kind] \ {square}]]

\* impl ChessBoard for PieceMap: move_piece
PieceMap_move_piece(map, chess_move) ==
    LET piece == PieceMap_get_piece(map, chess_move.src)
    IN  IF ~IsOk(piece) THEN ErrB(piece.err, map)
        ELSE Ok(add_piece(remove_piece(remove_piece(map, chess_move.dest), chess_move.src),
                          chess_move.dest,
                          IF chess_move.promote_to # None
                          THEN [kind |-> chess_move.promote_to,
                                colour |-> piece.val.colour]
                          ELSE piece.val))

\* The squares of the cells of the layout that hold a piece of one of
\* `kinds` and of one of `colours`
Cells(value, kinds, colours) ==
    {BitSquare_new(j - 1, 8 - i) : <<i, j>> \in
        {c \in (1..8) \X (1..8) :
            /\ value.layout[c[1]][c[2]] # ""
            /\ PieceKindOf(value.layout[c[1]][c[2]]) \in kinds
            /\ PieceColourOf(value.layout[c[1]][c[2]]) \in colours}}

\* impl From<Fen> for PieceMap: add_piece on every occupied cell of the
\* layout, each cell a square of its own, starting from the empty words
PieceMap_from(value) ==
    [pieces |-> [kind \in Range(PIECE_KINDS) |-> Cells(value, {kind}, {"White", "Black"})],
     colour |-> Cells(value, Range(PIECE_KINDS), {"White"})]

\* impl From<Fen> for BitBoard
BitBoard_from(value) ==
    [pieces |-> PieceMap_from(value),
     turn |-> value.turn,
     en_passant |-> IF value.en_passant = <<>> THEN <<>>
                    ELSE <<BitSquare_new(value.en_passant[1].file,
                                         value.en_passant[1].rank)>>,
     castling_rights |-> value.castling_rights,
     halfmove_clock |-> value.halfmove_clock,
     fullmove_number |-> value.fullmove_number]

\* BitBoard::en_passant_target: Some(square) as <<square>>, None as <<>>
BitBoard_en_passant_target(bb, piece, chess_move) ==
    IF bb.en_passant # <<>> /\ piece.kind = "Pawn" /\ <<chess_move.dest>> = bb.en_passant
    THEN <<BitSquare_new(BitSquare_file(chess_move.dest), BitSquare_rank(chess_move.src))>>
    ELSE <<>>

BitBoard_take_en_passant(bb, piece, chess_move) ==
    LET taken_pawn_square == BitBoard_en_passant_target(bb, piece, chess_move)
    IN  IF taken_pawn_square = <<>> THEN bb
        ELSE [bb EXCEPT !.pieces = remove_piece(@, taken_pawn_square[1])]

\* BitBoard::update_castling_rights
BitBoard_update_castling_rights(bb, piece, chess_move) ==
    LET castling_offset == castling_right_offset(piece.colour)
    IN  IF piece.kind = "King"
        THEN [bb EXCEPT !.castling_rights[castling_offset + KINGSIDE + 1] = FALSE,
                        !.castling_rights[castling_offset + QUEENSIDE + 1] = FALSE]
        ELSE IF piece.kind = "Rook" /\ BitSquare_file(chess_move.src) = 0
        THEN [bb EXCEPT !.castling_rights[castling_offset + QUEENSIDE + 1] = FALSE]
        ELSE IF piece.kind = "Rook" /\ BitSquare_file(chess_move.src) = 7
        THEN [bb EXCEPT !.castling_rights[castling_offset + KINGSIDE + 1] = FALSE]
        ELSE bb

\* The `if piece.kind() == PieceKind::Pawn` block of BitBoard::move_piece:
\* the en passant square is written on pawn moves only
BitBoard_pawn(bb, piece, chess_move, rank_offset) ==
    IF piece.kind = "Pawn"
    THEN [bb EXCEPT
            !.halfmove_clock = 0,
            !.en_passant =
                IF Abs(rank_offset) = PAWN_DOUBLE_PUSH
                THEN <<BitSquare_new(BitSquare_file(chess_move.src),
                                     BitSquare_rank(chess_move.src)
                                         + TruncDiv(rank_offset, 2))>>
                ELSE <<>>]
    ELSE bb

\* The `if piece.kind() == PieceKind::King` block of BitBoard::move_piece
BitBoard_castle(bb, piece, chess_move, file_offset) ==
    LET corner == IF file_offset = KINGSIDE_CASTLE THEN 7 ELSE 0
        beside == IF file_offset = KINGSIDE_CASTLE THEN 5 ELSE 3
        moved  == PieceMap_move_piece(bb.pieces,
                      [src |-> BitSquare_new(corner, BitSquare_rank(chess_move.src)),
                       dest |-> BitSquare_new(beside, BitSquare_rank(chess_move.src)),
                       promote_to |-> None])
    IN  IF piece.kind = "King" /\ file_offset \in {KINGSIDE_CASTLE, QUEENSIDE_CASTLE}
        THEN IF IsOk(moved) THEN Ok([bb EXCEPT !.pieces = moved.val])
             ELSE ErrB(moved.err, bb)
        ELSE Ok(bb)

\* The tail of BitBoard::move_piece: en passant capture, castling rights,
\* side to move and move number
BitBoard_end_turn(bb, piece, chess_move) ==
    LET done == BitBoard_update_castling_rights(
                    BitBoard_take_en_passant(bb, piece, chess_move), piece, chess_move)
    IN  [done EXCEPT !.turn = Not(@),
                     !.fullmove_number = IF done.turn = "Black" THEN @ + 1 ELSE @]

\* impl ChessBoard for BitBoard: move_piece
BitBoard_move_piece(bb, chess_move) ==
    LET counted == [bb EXCEPT !.halfmove_clock =
                       IF IsOk(PieceMap_get_piece(bb.pieces, chess_move.dest))
                       THEN 0 ELSE @ + 1]
        piece == PieceMap_get_piece(bb.pieces, chess_move.src)
        moved == PieceMap_move_piece(bb.pieces, chess_move)
        rank_offset == BitSquare_rank(chess_move.dest) - BitSquare_rank(chess_move.src)
        file_offset == BitSquare_file(chess_move.dest) - BitSquare_file(chess_move.src)
        castled == BitBoard_castle(
                       BitBoard_pawn([counted EXCEPT !.pieces = moved.val],
                                     piece.val, chess_move, rank_offset),
                       piece.val, chess_move, file_offset)
    IN  IF ~IsOk(piece) THEN ErrB(piece.err, counted)
        ELSE IF ~IsOk(castled) THEN castled
        ELSE Ok(BitBoard_end_turn(castled.val, piece.val, chess_move))

\* ------------------------------------------- the rules of chess, directly
\* What the claims mean by "attacked": stated from the geometry of the
\* pieces, independently of the generators above
OnBoard == {Sq(f, r) : f \in 0..7, r \in 0..7}

Sign(x) == IF x > 0 THEN 1 ELSE IF x < 0 THEN -1 ELSE 0

\* Every square strictly between a and c, which lie on one line, is empty
ClearLine(b, a, c) ==
    LET df == c.file - a.file
        dr == c.rank - a.rank
        n == IF Abs(df) > Abs(dr) THEN Abs(df) ELSE Abs(dr)
    IN  \A k \in 1..(n - 1) : ~Occupied(b, Sq(a.file + k * Sign(df), a.rank + k * Sign(dr)))

RefAttacks(b, p, target) ==
    LET df == target.file - p.square.file
        dr == target.rank - p.square.rank
        diagonal == Abs(df) = Abs(dr) /\ df # 0
        straight == (df = 0) # (dr = 0)
    IN  CASE p.kind = "Pawn" -> Abs(df) = 1 /\ dr = (IF p.colour = "White" THEN 1 ELSE -1)
          [] p.kind = "Knight" -> {Abs(df), Abs(dr)} = {1, 2}
          [] p.kind = "King" -> Abs(df) <= 1 /\ Abs(dr) <= 1 /\ <<df, dr>> # <<0, 0>>
          [] p.kind = "Bishop" -> diagonal /\ ClearLine(b, p.square, target)
          [] p.kind = "Rook" -> straight /\ ClearLine(b, p.square, target)
          [] p.kind = "Queen" -> (diagonal \/ straight) /\ ClearLine(b, p.square, target)

\* `square` is attacked by a piece of colour `by`
RefAttacked(b, square, by) ==
    \E i \in DOMAIN b.pieces :
        b.pieces[i].colour = by /\ RefAttacks(b, b.pieces[i], square)

KingSquares(b, colour) ==
    {b.pieces[i].square : i \in {j \in DOMAIN b.pieces :
        b.pieces[j].kind = "King" /\ b.pieces[j].colour = colour}}

\* The king of `colour` stands attacked
RefInCheck(b, colour) ==
    \E k \in KingSquares(b, colour) : RefAttacked(b, k, Not(colour))

PieceSquares(b) == {b.pieces[i].square : i \in DOMAIN b.pieces}

\* ------------------------------------------------------------------ C1
\* C1: every move returned by all_legal_moves or piece_legal_moves can be
\* applied, and leaves the king of the side that played it unattacked.
LeavesKingSafe(b, ms) ==
    IsOk(ms) =>
        \A i \in DOMAIN ms.val :
            LET after == move_piece(b, ms.val[i])
            IN  IsOk(after) /\ ~RefInCheck(after.val, b.turn)

C1_SelfCheck ==
    /\ LeavesKingSafe(board, all_legal_moves(board))
    /\ \A square \in PieceSquares(board) :
           LeavesKingSafe(board, piece_legal_moves(board, square))

\* A position in which the filter had to act: some pseudo-legal move would
\* expose the king, and the legal list is not empty
C1_Witness ==
    LET pl == all_plegal_moves(board)
        lg == all_legal_moves(board)
    IN  /\ call.op = "move_piece_legal" /\ call.err = "Ok"
        /\ IsOk(pl) /\ IsOk(lg) /\ lg.val # <<>>
        /\ \E i \in DOMAIN pl.val :
               RefInCheck(move_piece(board, pl.val[i]).val, board.turn)

\* ------------------------------------------------------------------ C2
\* C2: where no draw condition applies, state returns Checkmate exactly when
\* the side to move has no legal move and its king is attacked, Stalemate
\* when it has no legal move and is not attacked, Check when attacked with a
\* legal move, Normal otherwise.
NoDraw(b) ==
    /\ b.halfmove_clock < HalfmoveLimit
    /\ Cardinality({i \in DOMAIN b.board_history :
                      b.board_history[i] = hash_board_state(b)}) < RepetitionLimit

\* Some pseudo-legal move of the side to move leaves its king unattacked
RefHasLegalMove(b) ==
    LET pl == all_plegal_moves(b)
    IN  \E i \in DOMAIN pl.val :
            LET after == move_piece(b, pl.val[i])
            IN  IsOk(after) /\ ~RefInCheck(after.val, b.turn)

RefState(b) ==
    LET moves == RefHasLegalMove(b)
        check == RefInCheck(b, b.turn)
    IN  CASE ~moves /\ check -> "Checkmate"
          [] ~moves /\ ~check -> "Stalemate"
          [] moves /\ check -> "Check"
          [] OTHER -> "Normal"

C2_StateClassification ==
    LET s == state(board)
    IN  (NoDraw(board) /\ IsOk(s)) => s.val = RefState(board)

C2_Witness ==
    LET s == state(board)
    IN  /\ call.op = "move_piece_legal" /\ call.err = "Ok"
        /\ NoDraw(board) /\ IsOk(s) /\ s.val = "Checkmate"

\* ------------------------------------------------ what the last call did
\* The last call applied a move to the position call.before
Applied == call.op = "move_piece_legal" /\ call.err = "Ok"

\* The piece that was moved, as it stood before the move
MovedPiece == get_piece(call.before, call.arg.src).val

Holds(b, square, kind, colour) ==
    \E i \in DOMAIN b.pieces : b.pieces[i] = ChessPiece(square, kind, colour)

\* ------------------------------------------------------------------ C3
\* The position with its draw conditions taken away: clock at 0, empty log
Undrawn(b) == [b EXCEPT !.halfmove_clock = 0, !.board_history = <<>>]

\* The king is attacked and no move escapes the attack
RefCheckmate(b) == RefInCheck(b, b.turn) /\ ~RefHasLegalMove(Undrawn(b))

\* Earlier occurrences of the current position in the repetition log
Occurrences(b) ==
    Cardinality({i \in DOMAIN b.board_history : b.board_history[i] = hash_board_state(b)})

\* C3: in every position whose halfmove clock has reached 100, or which is
\* the third occurrence of the same position, state returns Stalemate unless
\* the position is a checkmate; also when the side to move is in check.
C3_DrawIsStalemate ==
    (board.halfmove_clock >= 100 \/ Occurrences(board) >= 2) =>
        LET s == state(board)
        IN  /\ IsOk(s)
            /\ s.val = IF RefCheckmate(board) THEN "Checkmate" ELSE "Stalemate"

\* ------------------------------------------------------------------ C4
IsCastling(b, chess_move) ==
    /\ get_piece(b, chess_move.src).val.kind = "King"
    /\ Abs(chess_move.dest.file - chess_move.src.file) = 2

\* C4: whenever a castling move is accepted as legal and applied, the
\* mover's king stands on g-R or c-R, the mover's own rook on f-R or d-R, the
\* rook's home corner is empty, and the king was attacked on none of e-R, the
\* square it crossed, or its destination.
C4_CastlingSquares ==
    (Applied /\ IsCastling(call.before, call.arg)) =>
        LET b == call.before
            chess_move == call.arg
            R == chess_move.src.rank
            kingside == chess_move.dest.file > chess_move.src.file
            crossed == Sq(IF kingside THEN 5 ELSE 3, R)
            corner == Sq(IF kingside THEN 7 ELSE 0, R)
        IN  /\ chess_move.src = Sq(4, R)
            /\ chess_move.dest = Sq(IF kingside THEN 6 ELSE 2, R)
            /\ Holds(board, chess_move.dest, "King", b.turn)
            /\ Holds(board, crossed, "Rook", b.turn)
            /\ ~Occupied(board, corner)
            /\ \A square \in {chess_move.src, crossed, chess_move.dest} :
                   ~RefAttacked(b, square, Not(b.turn))

\* ------------------------------------------------------------------ C5
\* The position after piece p went to `target` and whatever stood on
\* `target` or `taken` left the board, by the rules
RefAfter(b, p, target, taken) ==
    LET Keep(q) == q = p \/ q.square \notin {target, taken}
        kept == SelectSeq(b.pieces, Keep)
    IN  [b EXCEPT !.pieces = [i \in DOMAIN kept |->
                    IF kept[i] = p THEN [p EXCEPT !.square = target] ELSE kept[i]]]

\* The last call was a pawn double push
DoublePushed ==
    /\ Applied
    /\ MovedPiece.kind = "Pawn"
    /\ Abs(call.arg.dest.rank - call.arg.src.rank) = 2

\* The square the pushed pawn skipped
Skipped == Sq(call.arg.src.file, (call.arg.src.rank + call.arg.dest.rank) \div 2)

\* Pawns of the side to move that stand beside the pushed pawn
Beside ==
    {p \in Range(board.pieces) :
        /\ p.kind = "Pawn" /\ p.colour = board.turn
        /\ p.square.rank = call.arg.dest.rank
        /\ Abs(p.square.file - call.arg.dest.file) = 1}

\* C5: immediately after an enemy pawn double-pushes to a square beside a
\* pawn of the side to move, that pawn's legal moves include the diagonal
\* move onto the skipped square unless it would expose its own king; applying
\* it removes exactly the pawn that double-pushed and no other piece, and
\* leaves the capturing pawn on the skipped square.
C5_EnPassant ==
    DoublePushed =>
        \A p \in Beside :
            LET chess_move == SimpleMove(p.square, Skipped, None)
                legal == piece_legal_moves(board, p.square)
                after == move_piece(board, chess_move)
                ref == RefAfter(board, p, Skipped, call.arg.dest)
            IN  /\ IsOk(legal)
                /\ Contains(legal.val, chess_move) <=> ~RefInCheck(ref, board.turn)
                /\ Contains(legal.val, chess_move) =>
                       /\ IsOk(after)
                       /\ Len(after.val.pieces) = Len(board.pieces) - 1
                       /\ Range(after.val.pieces) = Range(ref.pieces)
                       /\ ~Occupied(after.val, call.arg.dest)
                       /\ Holds(after.val, Skipped, "Pawn", board.turn)

\* A double push was answered by a pawn that may capture en passant
C5_Witness ==
    /\ DoublePushed
    /\ \E p \in Beside :
           Contains(piece_legal_moves(board, p.square).val,
                    SimpleMove(p.square, Skipped, None))

\* ------------------------------------------------------------------ C6
LastRank(colour) == IF colour = "White" THEN 7 ELSE 0

PromotionKinds == {"Queen", "Rook", "Bishop", "Knight"}

Count(s, x) == Cardinality({i \in DOMAIN s : s[i] = x})

\* Squares pawn p may step to by the rules, the double push and en passant
\* apart: straight ahead if empty, diagonally ahead onto an opponent piece
RefPawnSteps(b, p) ==
    {square \in OnBoard :
        /\ square.rank = p.square.rank + (IF p.colour = "White" THEN 1 ELSE -1)
        /\ \/ square.file = p.square.file /\ ~Occupied(b, square)
           \/ /\ Abs(square.file - p.square.file) = 1
              /\ \E q \in Range(b.pieces) : q.square = square /\ q.colour # p.colour}

\* C6: every legal pawn move, push or capture, whose destination is on the
\* last rank appears in the legal-move list as exactly four moves with the
\* same source and destination, promoting to Queen, Rook, Bishop and Knight,
\* and never without a promotion piece; no move to another rank and no move
\* of a non-pawn carries a promotion piece. (Where a draw condition shuts move
\* generation off, the list is empty.)
C6_PromotionExpansion ==
    LET legal == all_legal_moves(board)
    IN  IsOk(legal) =>
        /\ \A i \in DOMAIN legal.val :
               LET chess_move == legal.val[i]
                   p == get_piece(board, chess_move.src).val
               IN  IF p.kind = "Pawn" /\ chess_move.dest.rank = LastRank(p.colour)
                   THEN chess_move.promote_to \in PromotionKinds
                   ELSE chess_move.promote_to = None
        /\ \A p \in Range(board.pieces) :
               (p.kind = "Pawn" /\ p.colour = board.turn) =>
                   \A square \in RefPawnSteps(board, p) :
                       square.rank = LastRank(p.colour) =>
                           \A kind \in PromotionKinds :
                               Count(legal.val, SimpleMove(p.square, square, kind)) =
                                   IF /\ NoDraw(board)
                                      /\ ~RefInCheck(RefAfter(board, p, square, square),
                                                     board.turn)
                                   THEN 1 ELSE 0

\* After a move, the side to move may promote by a push and by a capture
C6_Witness ==
    LET legal == all_legal_moves(board)
    IN  /\ Applied
        /\ IsOk(legal)
        /\ \E i, j \in DOMAIN legal.val :
               /\ legal.val[i].promote_to # None
               /\ legal.val[j].promote_to # None
               /\ legal.val[i].src = legal.val[j].src
               /\ legal.val[i].dest.file = legal.val[i].src.file
               /\ legal.val[j].dest.file # legal.val[j].src.file

\* ------------------------------------------------------------------ C7
\* The last call asked for a PGN move to be resolved in call.before
Queried == call.op = "disambiguate_move_internal"

\* The legal move fits the piece kind, destination, promotion piece and any
\* given source file or rank of the PGN move
RefFits(b, am, chess_move) ==
    /\ get_piece(b, chess_move.src).val.kind = am.piece_kind
    /\ <<chess_move.dest>> = am.dest
    /\ chess_move.promote_to = am.promote_to
    /\ (am.src_file # <<>> => am.src_file = <<chess_move.src.file>>)
    /\ (am.src_rank # <<>> => am.src_rank = <<chess_move.src.rank>>)

\* It also fits the marks: a capture mark asks for a piece on the
\* destination, an action suffix for the state the move leads to
RefFitsMarks(b, am, chess_move) ==
    /\ RefFits(b, am, chess_move)
    /\ (am.takes => Occupied(b, chess_move.dest))
    /\ (am.action # None =>
            LET st == state(move_piece(b, chess_move).val)
            IN  IsOk(st) /\ st.val = am.action)

\* The outcome the call must have had when `matching` is the set of legal
\* moves that match
RefOutcome(matching) ==
    IF matching = {} THEN call.err = "ImpossibleMove"
    ELSE IF Cardinality(matching) = 1
         THEN call.err = "Ok" /\ call.val \in matching
    ELSE call.err = "AmbiguousMove"

RefCastleMove(b, side) ==
    LET R == IF b.turn = "Black" THEN 7 ELSE 0
    IN  SimpleMove(Sq(4, R), Sq(IF side = "KingSide" THEN 6 ELSE 2, R), None)

C9_Counters ==
    Applied =>
        LET b == call.before
        IN  /\ board.turn = Not(b.turn)
            /\ board.fullmove_number =
                   b.fullmove_number + (IF b.turn = "Black" THEN 1 ELSE 0)
            /\ board.halfmove_clock =
                   IF Occupied(b, call.arg.dest) \/ MovedPiece.kind = "Pawn"
                   THEN 0 ELSE b.halfmove_clock + 1

\* ------------------------------------------------------------------ C10
HomeCorner(colour, side) ==
    Sq(IF side = KINGSIDE THEN 7 ELSE 0, IF colour = "Black" THEN 7 ELSE 0)

OtherWing(side) == IF side = KINGSIDE THEN QUEENSIDE ELSE KINGSIDE

\* C10: after a king move (castling included) both castling rights of the
\* mover are cleared; after a rook moves off its home corner the mover's
\* right for that wing is cleared; the mover's other-wing right and both of
\* the opponent's rights are left as they were.
C10_CastlingRights ==
    Applied =>
        LET b == call.before
            me == b.turn
            OpponentKeeps ==
                \A side \in {KINGSIDE, QUEENSIDE} :
                    Right(board, Not(me), side) = Right(b, Not(me), side)
        IN  /\ MovedPiece.kind = "King" =>
                   /\ ~Right(board, me, KINGSIDE)
                   /\ ~Right(board, me, QUEENSIDE)
                   /\ OpponentKeeps
            /\ \A side \in {KINGSIDE, QUEENSIDE} :
                   (MovedPiece.kind = "Rook" /\ call.arg.src = HomeCorner(me, side)) =>
                       /\ ~Right(board, me, side)
                       /\ Right(board, me, OtherWing(side)) = Right(b, me, OtherWing(side))
                       /\ OpponentKeeps

\* A rook left its home corner with the right of its wing set, and the
\* opponent still holds a right
C10_Witness ==
    /\ Applied
    /\ MovedPiece.kind = "Rook"
    /\ \E side \in {KINGSIDE, QUEENSIDE} :
           /\ call.arg.src = HomeCorner(call.before.turn, side)
           /\ Right(call.before, call.before.turn, side)
           /\ ~Right(board, call.before.turn, side)
    /\ \E side \in {KINGSIDE, QUEENSIDE} : Right(board, board.turn, side)

\* ------------------------------------------------------------------ C11
KingHome(colour) == Sq(4, IF colour = "Black" THEN 7 ELSE 0)

\* C11: in every position reached by legal play, a castling right that is
\* set implies that the king of that colour stands on its home square and
\* the rook of that colour stands on the home corner of that wing (so the
\* right is gone once that rook has been captured on its corner).
C11_RightsImplyHome ==
    \A colour \in {"White", "Black"}, side \in {KINGSIDE, QUEENSIDE} :
        Right(board, colour, side) =>
            /\ Holds(board, KingHome(colour), "King", colour)
            /\ Holds(board, HomeCorner(colour, side), "Rook", colour)

\* ------------------------------------------------------------------ C12
\* The applied move is irreversible: a capture, a pawn move, a castling
\* move or a move that loses a castling right
Irreversible ==
    \/ Occupied(call.before, call.arg.dest)
    \/ MovedPiece.kind = "Pawn"
    \/ IsCastling(call.before, call.arg)
    \/ board.castling_rights # call.before.castling_rights

\* C12: the repetition log never holds more entries than the value of the
\* halfmove clock: an irreversible move (capture, pawn move, castling, loss
\* of a castling right) empties the log, every other move adds one entry.
C12_LogBounded ==
    /\ Len(board.board_history) <= board.halfmove_clock
    /\ Applied =>
          board.board_history =
              IF Irreversible THEN <<>>
              ELSE Append(call.before.board_history, hash_board_state(call.before))

\* ------------------------------------------------------------------ C13
\* C13: every position reached by legal moves holds exactly one king of
\* each colour, and no two of its pieces stand on the same square.
C13_KingsAndSquares ==
    /\ \A colour \in {"White", "Black"} :
           Cardinality({i \in DOMAIN board.pieces :
               board.pieces[i].kind = "King" /\ board.pieces[i].colour = colour}) = 1
    /\ \A i, j \in DOMAIN board.pieces :
           board.pieces[i].square = board.pieces[j].square => i = j

\* A capture has been applied: a piece came off the board and another
\* stands where it stood
C13_Witness ==
    /\ Applied
    /\ Occupied(call.before, call.arg.dest)
    /\ Len(board.pieces) = Len(call.before.pieces) - 1
    /\ C13_KingsAndSquares

\* ------------------------------------------------------------------ C14
\* The en passant target is on the rank with index `target` and a pawn of
\* the side that has just moved stands on the rank with index `pawn` of the
\* same file
TargetAndPawn(b, target, pawn) ==
    /\ b.en_passant[1].rank = target
    /\ Holds(b, Sq(b.en_passant[1].file, pawn), "Pawn", Not(b.turn))

\* C14 as stated: after every applied move an en passant target, if present,
\* is on rank 3 when White is to move and on rank 6 when Black is to move,
\* with a pawn of the colour opposite to the side to move directly behind it.
C14_RankBySideToMove ==
    (Applied /\ board.en_passant # <<>>) =>
        IF board.turn = "White" THEN TargetAndPawn(board, 2, 3)
        ELSE TargetAndPawn(board, 5, 4)

\* C14: after every applied move an en passant target, if present, is on
\* rank 3 when Black is to move (White has just pushed a pawn two squares)
\* and on rank 6 when White is to move, and a pawn of the colour opposite to
\* the side to move stands on the square directly beyond it (rank 4, rank 5).
C14_EnPassantTarget ==
    (Applied /\ board.en_passant # <<>>) =>
        IF board.turn = "Black" THEN TargetAndPawn(board, 2, 3)
        ELSE TargetAndPawn(board, 5, 4)

\* White has pushed a pawn two squares
C14_Witness ==
    /\ Applied
    /\ board.en_passant # <<>>
    /\ board.turn = "Black"
    /\ MovedPiece.colour = "White"

\* ------------------------------------------------------------------ C15
\* The position a bitboard holds, read square by square into the fields of
\* a FEN
BitFen(bb) ==
    [layout |-> [i \in 1..8 |-> [j \in 1..8 |->
                    LET piece == PieceMap_get_piece(bb.pieces, BitSquare_new(j - 1, 8 - i))
                    IN  IF IsOk(piece) THEN as_fen(piece.val.kind, piece.val.colour)
                        ELSE ""]],
     turn |-> bb.turn,
     castling_rights |-> bb.castling_rights,
     en_passant |-> IF bb.en_passant = <<>> THEN <<>>
                    ELSE <<Sq(BitSquare_file(bb.en_passant[1]),
                              BitSquare_rank(bb.en_passant[1]))>>,
     halfmove_clock |-> bb.halfmove_clock,
     fullmove_number |-> bb.fullmove_number]

\* The last move, applied to the bitboard of the position it was made in
BitApplied ==
    BitBoard_move_piece(BitBoard_from(try_from(call.before).val),
                        [src |-> BitSquare_new(call.arg.src.file, call.arg.src.rank),
                         dest |-> BitSquare_new(call.arg.dest.file, call.arg.dest.rank),
                         promote_to |-> call.arg.promote_to])

\* C15: for every reachable position and every legal move, the move applied
\* to the piece-list board and applied to the bitboard of the same position
\* give the same FEN: placement, side to move, castling rights, en passant
\* target, halfmove clock and fullmove number.
C15_SameFen ==
    Applied =>
        /\ IsOk(BitApplied)
        /\ BitFen(BitApplied.val) = try_from(board).val

\* ------------------------------------------------------------------ C16
\* C16: for every reachable position p, the position built from the FEN
\* rendered from p is equal to p under the equality the board derives: the
\* piece list in its order, side to move, en passant target, castling
\* rights, both counters and the repetition log.
C16_FenRoundTrip ==
    /\ IsOk(try_from(board))
    /\ FromFen(try_from(board).val) = board

\* ------------------------------------------------------------------ C17
\* The text after the en passant field holds neither number
Absent(tail) == \A i \in DOMAIN tail : tail[i] = " "

\* C17: a FEN whose halfmove clock and fullmove number fields are absent
\* parses to a position with halfmove clock 0 and fullmove number 1.
C17_DefaultCounters ==
    (call.op = "from_fen" /\ Absent(call.arg)) =>
        /\ board.halfmove_clock = 0
        /\ board.fullmove_number = 1

\* ------------------------------------------------------------------ C18
\* The moves the words of a text write, in order
RECURSIVE Written_moves(_, _)
Written_moves(words, i) ==
    IF i > Len(words) THEN <<>>
    ELSE Tokens[words[i]].move \o Written_moves(words, i + 1)

\* C18: parsing a PGN text either returns every move of the text, in order,
\* or fails with InvalidPGN; a word the parser does not understand never
\* makes a successful result leave out the moves after it.
C18_AllMovesOrError ==
    call.op = "pgn_to_moves" =>
        \/ call.err = "InvalidPGN"
        \/ call.err = "Ok" /\ call.val = Written_moves(call.arg, 1)

\* ------------------------------------------------------------------ C19
\* C19: the fifty-move draw takes effect at a halfmove clock of 100 and not
\* earlier: while the clock is below 100 and the position has not occurred
\* twice before, the legal moves are those of the position with its draw
\* conditions taken away, and state reports what it reports for that
\* position, so never Stalemate on account of the clock.
C19_NoDrawBelow100 ==
    (board.halfmove_clock < 100 /\ Occurrences(board) < 2) =>
        /\ all_legal_moves(board) = all_legal_moves(Undrawn(board))
        /\ state(board) = state(Undrawn(board))

\* ------------------------------------------------------------------ C20
\* What stands on each square, whatever the order of the piece list
Placement(b) ==
    [s \in OnBoard |->
        {<<b.pieces[i].kind, b.pieces[i].colour>> :
            i \in {j \in DOMAIN b.pieces : b.pieces[j].square = s}}]

SamePosition(a, b) ==
    /\ Placement(a) = Placement(b)
    /\ a.turn = b.turn
    /\ a.castling_rights = b.castling_rights
    /\ a.en_passant = b.en_passant

\* The position with its repetition log emptied
Unlogged(b) == [b EXCEPT !.board_history = <<>>]

\* C20: two positions count as the same for the repetition rule exactly
\* when placement, side to move, castling rights and en passant target are
\* equal; the positions the current one is compared with are the earlier
\* positions of the game, one for each move made and none for a call that
\* failed; and the draw applies (no move is generated) exactly when the
\* current position equals at least two of them.
C20_Repetition ==
    /\ call.op = "move_piece" =>
          /\ (hash_board_state(board) = hash_board_state(call.before))
                 <=> SamePosition(board, call.before)
          /\ board.board_history =
                 IF call.err = "Ok"
                 THEN Append(call.before.board_history, hash_board_state(call.before))
                 ELSE call.before.board_history
    /\ call.op = "from_fen" => board.board_history = <<>>
    /\ IF Occurrences(board) >= 2
       THEN all_plegal_moves(board) = Ok(<<>>)
       ELSE all_plegal_moves(board) = all_plegal_moves(Unlogged(board))

\* ------------------------------------------------------------------ C21
\* The en passant target a move leaves by the rule: the skipped square
\* after a double push, none after any other move
RuleTarget == IF DoublePushed THEN <<Skipped>> ELSE <<>>

\* C21: in both board representations, after a move is applied the en
\* passant target is the square the pawn skipped if the move was a pawn
\* double push, and absent after every other move.
C21_TargetOneReply ==
    Applied =>
        /\ board.en_passant = RuleTarget
        /\ IsOk(BitApplied)
        /\ BitFen(BitApplied.val).en_passant = RuleTarget

\* ------------------------------------------------------------------ C22
CastleDest(colour, side) ==
    Sq(IF side = KINGSIDE THEN 6 ELSE 2, IF colour = "Black" THEN 7 ELSE 0)

\* The squares between the king and the rook of that wing
Between(colour, side) ==
    {Sq(f, KingHome(colour).rank) :
        f \in (IF side = KINGSIDE THEN {5, 6} ELSE {1, 2, 3})}

\* The king's square, the square it crosses and the square it lands on
KingPath(colour, side) ==
    {Sq(f, KingHome(colour).rank) :
        f \in (IF side = KINGSIDE THEN {4, 5, 6} ELSE {2, 3, 4})}

RefCastle(b, colour, side) ==
    /\ Right(b, colour, side)
    /\ \A s \in Between(colour, side) : ~Occupied(b, s)
    /\ \A s \in KingPath(colour, side) : ~RefAttacked(b, s, Not(colour))

\* The mover's king is on its home square and the list holds its castling move
Offered(b, ms, side) ==
    /\ IsOk(ms)
    /\ Holds(b, KingHome(b.turn), "King", b.turn)
    /\ SimpleMove(KingHome(b.turn), CastleDest(b.turn, side), None) \in Range(ms.val)

\* C22: a castling move is offered exactly when the mover's right for that
\* wing is set, the squares between king and rook are empty, and none of the
\* king's square, the square it crosses and its destination is attacked; an
\* attack on the b-file square alone does not prevent queen-side castling.
C22_CastlingOffered ==
    \A side \in {KINGSIDE, QUEENSIDE} :
        /\ Offered(board, castle_moves(board, board.turn), side)
            <=> RefCastle(board, board.turn, side)
        /\ Offered(board, all_plegal_moves(board), side)
            <=> RefCastle(board, board.turn, side)
        /\ Offered(board, all_legal_moves(board), side)
            <=> RefCastle(board, board.turn, side)

\* Queen-side castling is offered while the b-file square is attacked
C22_Witness ==
    /\ Offered(board, all_legal_moves(board), QUEENSIDE)
    /\ RefAttacked(board, Sq(1, KingHome(board.turn).rank), Not(board.turn))

\* ------------------------------------------------------------------ C23
\* The move is a pawn's diagonal step onto the en passant target of b
IsEnPassant(b, chess_move) ==
    /\ get_piece(b, chess_move.src).val.kind = "Pawn"
    /\ <<chess_move.dest>> = b.en_passant
    /\ chess_move.dest.file # chess_move.src.file

\* The legal move fits the PGN move, a capture mark being met by a piece on
\* the destination or by an en passant capture
RefFitsCapture(b, am, chess_move) ==
    /\ RefFits(b, am, chess_move)
    /\ (am.takes => Occupied(b, chess_move.dest) \/ IsEnPassant(b, chess_move))
    /\ (am.action # None =>
            LET st == state(move_piece(b, chess_move).val)
            IN  IsOk(st) /\ st.val = am.action)

\* C23: when a PGN move is marked as a capture, a legal move matches it if
\* its destination holds a piece or if it is an en passant capture, so the
\* capture notation of a legal en passant capture resolves to that move.
C23_EnPassantCapture ==
    (Queried /\ call.arg.variant = "Normal" /\ call.arg.takes) =>
        LET legal == all_legal_moves(call.before)
        IN  IsOk(legal) =>
                RefOutcome({chess_move \in Range(legal.val) :
                              RefFitsCapture(call.before, call.arg, chess_move)})

\* ------------------------------------------------------------------ C24
Ahead(p, files, ranks) ==
    Sq(p.square.file + files,
       p.square.rank + ranks * (IF p.colour = "White" THEN 1 ELSE -1))

StartRank(colour) == IF colour = "White" THEN 1 ELSE 6

\* Squares pawn p may move to by the rules
RefPawnDests(b, p) ==
    {square \in OnBoard :
        \/ square = Ahead(p, 0, 1) /\ ~Occupied(b, square)
        \/ /\ square = Ahead(p, 0, 2)
           /\ p.square.rank = StartRank(p.colour)
           /\ ~Occupied(b, Ahead(p, 0, 1))
           /\ ~Occupied(b, square)
        \/ /\ square \in {Ahead(p, -1, 1), Ahead(p, 1, 1)}
           /\ \/ \E q \in Range(b.pieces) : q.square = square /\ q.colour # p.colour
              \/ ~Occupied(b, square) /\ b.en_passant = <<square>>}

\* The moves to those squares, a move onto the last rank once per promotion
RefPawnMoves(b, p) ==
    {SimpleMove(p.square, square, promote_to) :
        square \in RefPawnDests(b, p), promote_to \in PromotionKinds \cup {None}}
    \ {chess_move \in [src : {p.square}, dest : OnBoard,
                       promote_to : PromotionKinds \cup {None}] :
          (chess_move.dest.rank = LastRank(p.colour)) = (chess_move.promote_to = None)}

\* C24: a pawn's pseudo-legal moves are exactly the single push if the square
\* ahead is empty, the double push if the pawn is also on its starting rank
\* and the second square is empty, each forward-diagonal move onto an
\* opponent's piece, and the forward-diagonal move onto the empty en passant
\* target.
C24_PawnMoves ==
    \A p \in Range(board.pieces) :
        p.kind = "Pawn" =>
            LET moves == pawn_moves(board, p.square, p.colour)
            IN  /\ IsOk(moves)
                /\ Range(moves.val) = RefPawnMoves(board, p)
                /\ Len(moves.val) = Cardinality(RefPawnMoves(board, p))

\* A pawn of the side to move may push, and take the pawn that has just
\* double-pushed en passant
C24_Witness ==
    /\ DoublePushed
    /\ \E p \in Beside :
          /\ SimpleMove(p.square, Skipped, None)
                \in Range(pawn_moves(board, p.square, p.colour).val)
          /\ \E chess_move \in Range(pawn_moves(board, p.square, p.colour).val) :
                chess_move.dest.file = p.square.file

\* ------------------------------------------------------------------ C25
\* Squares the knight, king, bishop, rook or queen p may move to by the
\* rules, castling apart: reached by its pattern or along a clear line, and
\* not held by a piece of its own colour
RefDests(b, p) ==
    {square \in OnBoard :
        /\ RefAttacks(b, p, square)
        /\ ~\E q \in Range(b.pieces) : q.square = square /\ q.colour = p.colour}

\* The generator the match of piece_plegal_moves calls for p, castling apart
PatternMoves(b, p) ==
    IF p.kind = "King"
    THEN offset_moves(b, p.square, p.colour, KING_PATTERN)
    ELSE KindMoves(b, p)

\* C25: the pseudo-legal moves of a knight and the non-castling moves of a
\* king are exactly those of the eight fixed offsets that stay on the board
\* and land on an empty or opponent-held square; those of a bishop, rook or
\* queen are exactly the squares along its rays up to the first occupied
\* square, which is included if it holds an opponent's piece and excluded if
\* it holds an own piece.
C25_PatternAndRayMoves ==
    \A p \in Range(board.pieces) :
        p.kind # "Pawn" =>
            LET moves == PatternMoves(board, p)
            IN  /\ IsOk(moves)
                /\ Range(moves.val) =
                       {SimpleMove(p.square, square, None) : square \in RefDests(board, p)}
                /\ Len(moves.val) = Cardinality(RefDests(board, p))

\* A bishop, rook or queen has a capture at the end of one ray and an own
\* piece at the end of another
C25_Witness ==
    \E p \in Range(board.pieces) :
        /\ p.kind \in {"Bishop", "Rook", "Queen"}
        /\ \E chess_move \in Range(PatternMoves(board, p).val) :
              Occupied(board, chess_move.dest)
        /\ \E q \in Range(board.pieces) :
              q.colour = p.colour /\ RefAttacks(board, p, q.square)

\* ------------------------------------------------------------------ C26
\* What the bitboard holds on `square` after the last move, as a FEN letter
BitCell(square) == BitFen(BitApplied.val).layout[8 - square.rank][square.file + 1]

\* The king has castled with its rook: the rook stands beside it on the far
\* side, the corner is empty
BitCastled ==
    LET side == IF call.arg.dest.file = 6 THEN KINGSIDE ELSE QUEENSIDE
        colour == MovedPiece.colour
        crossed == Sq((call.arg.src.file + call.arg.dest.file) \div 2, call.arg.src.rank)
    IN  Holds(call.before, HomeCorner(colour, side), "Rook", colour) =>
            /\ BitCell(call.arg.dest) = as_fen("King", colour)
            /\ BitCell(crossed) = as_fen("Rook", colour)
            /\ BitCell(HomeCorner(colour, side)) = ""
            /\ BitCell(call.arg.src) = ""

\* The promotion piece stands on the destination, no pawn is left
BitPromoted ==
    /\ BitCell(call.arg.dest) = as_fen(call.arg.promote_to, MovedPiece.colour)
    /\ BitCell(call.arg.src) = ""

\* The capturing pawn stands on the target, the captured pawn is gone
BitTakenEnPassant ==
    /\ BitCell(call.arg.dest) = as_fen("Pawn", MovedPiece.colour)
    /\ BitCell(call.arg.src) = ""
    /\ BitCell(Sq(call.arg.dest.file, call.arg.src.rank)) = ""

\* C26: on the bitboard, applying a move updates the placement completely:
\* castling moves the rook as well as the king, a promotion replaces the pawn
\* with the promotion piece, and an en passant capture removes the captured
\* pawn.
C26_BitPlacement ==
    Applied =>
        /\ IsOk(BitApplied)
        /\ IsCastling(call.before, call.arg) => BitCastled
        /\ call.arg.promote_to # None => BitPromoted
        /\ IsEnPassant(call.before, call.arg) => BitTakenEnPassant

\* ------------------------------------------------------------------ C27
\* The query returned a result: it did not panic and did not fail on the
\* board
Returned(r) == r.err \notin {"Panic", "PieceNotFound", "InvalidBoard"}

\* C27: in every position reached by legal moves, with a king on or next to
\* the far back rank or a rook captured on its home corner as well,
\* all_legal_moves, piece_legal_moves, is_move_legal and state return a
\* result: they neither panic nor fail with PieceNotFound or InvalidBoard.
C27_QueriesReturn ==
    /\ Returned(all_legal_moves(board))
    /\ Returned(state(board))
    /\ \A p \in Range(board.pieces) : Returned(piece_legal_moves(board, p.square))
    /\ \A chess_move \in PlegalSet(board) : Returned(is_move_legal(board, chess_move))

\* ------------------------------------------------------------------ C28
\* The last call applied a move from an empty square and failed
Refused == call.op = "move_piece" /\ call.err = "PieceNotFound"

\* C28: when applying a move fails because the source square is empty, the
\* position is left exactly as it was before the call (placement, side to
\* move, castling rights, en passant target, both clocks and the repetition
\* log), in both board representations.
C28_FailedMoveNoChange ==
    Refused =>
        /\ board = call.before
        /\ BitApplied.err = "PieceNotFound"
        /\ BitApplied.val = BitBoard_from(try_from(call.before).val)

\* ------------------------------------------------------------------ C29
\* The move is in the list all_legal_moves returns for b
InLegalList(b, chess_move) ==
    LET legal == all_legal_moves(b)
    IN  IsOk(legal) /\ chess_move \in Range(legal.val)

\* state reports that the game is over
Terminal(b) ==
    LET st == state(b)
    IN  IsOk(st) /\ st.val \in {"Checkmate", "Stalemate"}

\* The step is a call of move_piece_legal that returned an error and left
\* the position as it was
Rejected ==
    /\ call'.err \notin {"Ok", "Panic"}
    /\ board' = board

C29_Step ==
    call'.op = "move_piece_legal" =>
        /\ board' # board => InLegalList(board, call'.arg)
        /\ ~InLegalList(board, call'.arg) => Rejected
        /\ Terminal(board) => Rejected /\ Terminal(board')

\* C29: the legality-checked move operation changes the position only when
\* the move is in the current legal-move list, and otherwise returns an error
\* and leaves the position unchanged; once state reports Checkmate or
\* Stalemate no further move is ever accepted and the position stays
\* terminal.
C29_OnlyLegalMoves == [][C29_Step]_vars

\* ------------------------------------------------------------------ C30
\* The last move is one that may change the right of `colour` for `side`:
\* a move of that side's king, of that side's rook from the home corner of
\* the wing, or a capture on that corner
MayChange(colour, side) ==
    \/ MovedPiece.colour = colour /\ MovedPiece.kind = "King"
    \/ /\ MovedPiece.colour = colour /\ MovedPiece.kind = "Rook"
       /\ call.arg.src = HomeCorner(colour, side)
    \/ /\ call.arg.dest = HomeCorner(colour, side)
       /\ Occupied(call.before, call.arg.dest)

\* C30: a move changes a castling right only if it is a move of that side's
\* king, of that side's rook away from the home corner of that wing, or a
\* capture on that corner; every other move (a rook leaving another square of
\* the a- or h-file, a pawn promoting from the a- or h-file) leaves all four
\* rights as they were, on the piece-list board and on the bitboard.
C30_RightsFrame ==
    Applied =>
        \A colour \in {"White", "Black"}, side \in {KINGSIDE, QUEENSIDE} :
            ~MayChange(colour, side) =>
                /\ Right(board, colour, side) = Right(call.before, colour, side)
                /\ Right(BitApplied.val, colour, side) = Right(call.before, colour, side)

====
